---- MODULE Spec2Model ----
(***************************************************************************)
(* Model of the marker subsystem of classquiz_ocr_llm_based:               *)
(*   marker_module/marker_config.py     MarkerConfig                       *)
(*   marker_module/marker_generator.py  MarkerGenerator                    *)
(*   marker_module/marker_scanner.py    ExamScanner                        *)
(*                                                                         *)
(* Nine specifications share the definitions below.                        *)
(*   SpecCodec    calls of calculate_markers, decode_marker and            *)
(*                get_exam_marker_range                                    *)
(*   SpecScan     one photographed image: detections, then scan_page       *)
(*   SpecBatch    a batch of images: scan_submission with its calls of     *)
(*                scan_multiple_pages and organize_by_page                 *)
(*   SpecDewarp   a page photographed under a transform, then dewarped     *)
(*   SpecPlace    one call of add_markers_to_page                          *)
(*   SpecGenerate one call of generate_marked_exam                         *)
(*   SpecAgent    threads in Agent.wait_if_needed and handle_rate_limit    *)
(*   SpecProcess  ExamProcessingSystem.process_exams and its worker pool   *)
(*                (SpecProcessLive: the same with the threads kept running)*)
(*   SpecMark     batch_mark_3eme_exams over the PDFs it finds             *)
(*                                                                         *)
(* Python values: None is the empty tuple and a present Optional value x   *)
(* is <<x>>; a dict is a record with the keys the code gives it; a raised  *)
(* exception is a call outcome [exc |-> "ValueError"].                     *)
(***************************************************************************)
EXTENDS Integers, Sequences, FiniteSets, TLC

VARIABLES
    gen_args,       \* SpecCodec: arguments of the last calculate_markers call
    gen_result,     \* SpecCodec: its outcome (return value or exception)
    dec_arg,        \* SpecCodec: argument of the last decode_marker call
    dec_result,     \* SpecCodec: its return value
    range_arg,      \* SpecCodec: argument of the last get_exam_marker_range call
    range_result,   \* SpecCodec: its outcome (return value or exception)
    marked,         \* SpecScan: (exam_id, page_number) the photographed page was marked with
    ids,            \* SpecScan: marker ids the detector reports for the image
    scan_result,    \* SpecScan: what scan_page returned for the image
    hom_call,       \* SpecScan: the CoordinateMapper function called on the scanned image
    homography,     \* SpecScan: what that call returned
    images,         \* SpecBatch: the batch, each image given by its detections
    scan_results,   \* SpecBatch: results list of scan_multiple_pages
    organized,      \* SpecBatch: organized dict of organize_by_page
    failed_scans,   \* SpecBatch: failed_scans counter of organize_by_page
    pc,             \* SpecBatch: position in the scan/organize pipeline
    idx,            \* SpecBatch: loop index of the running loop
    exam_order,     \* SpecBatch: keys of the organized dict in insertion order
    log,            \* SpecBatch: what organize_by_page has logged
    exam_pos,       \* SpecBatch: exams scan_submission has finished
    scanned_pages,  \* SpecBatch: scanned_pages list of the exam being processed
    saved_pdf,      \* SpecBatch: pages of the PDF written for each exam id
    results,        \* SpecBatch: results list of scan_submission
    sub_exc,        \* SpecBatch: exception scan_submission ended with
    doc_page,       \* SpecDewarp: the canonical page, a pixel value per document position
    transform,      \* SpecDewarp: document position -> photo position the camera applied
    photo,          \* SpecDewarp: the photograph, a pixel value per photo position
    extracted,      \* SpecDewarp: what extract_full_document resampled from the photo
    page_image,     \* SpecPlace: the caller's page image object
    place_args,     \* SpecPlace: (exam_id, page_number) of the add_markers_to_page call
    place_result,   \* SpecPlace: its outcome (returned image or exception)
    exam_call,      \* SpecGenerate: (exam_id, pages) generate_marked_exam was called with
    exam_pc,        \* SpecGenerate: position in generate_marked_exam
    marked_pages,   \* SpecGenerate: marked_pages list of generate_marked_exam
    rendered,       \* SpecGenerate: glyphs generate_marker rendered, by page and id
    exam_outcome,   \* SpecGenerate: outcome of generate_marked_exam
    a_pc,           \* SpecAgent: position of each thread in its classification loop
    a_op,           \* SpecAgent: the Agent method each thread is in
    lock_attr,      \* SpecAgent: the lock object cls._lock_ refers to (0: no attribute)
    lock_holder,    \* SpecAgent: the thread holding each lock object
    my_lock,        \* SpecAgent: the lock object each thread's with statement took
    last_request_time, \* SpecAgent: cls.last_request_time (Unset: no attribute)
    now,            \* SpecAgent: time.time(), in milliseconds
    ticks,          \* SpecAgent: how often the clock has advanced
    wake,           \* SpecAgent: when each thread's time.sleep ends
    slept,          \* SpecAgent: wait_time of each thread's current call
    called_at,      \* SpecAgent: when each thread entered its current call
    stamps,         \* SpecAgent: the calls that wrote last_request_time, in order
    retries,        \* SpecAgent: attempt counter of each thread
    pe_pc,          \* SpecProcess: position of process_exams
    exams_data,     \* SpecProcess: number of exams handed to process_exams (ids 1..exams_data)
    pe_next,        \* SpecProcess: number of executor.submit calls done
    max_workers,    \* SpecProcess: max_workers of the executor
    work_queue,     \* SpecProcess: the executor's queue of submitted tasks
    fut,            \* SpecProcess: state of the futures f1, f2, f3 of each exam
    updated,        \* SpecProcess: exams repo.update_exam was called for
    completed_tasks, \* SpecProcess: self.completed_tasks
    pe_results,     \* SpecProcess: what process_exams returned
    bm_call,        \* SpecMark: start_exam_id and the PDFs (page counts) found
    bm_pc,          \* SpecMark: position of batch_mark_3eme_exams
    bm_results      \* SpecMark: results list of batch_mark_3eme_exams

codecVars == <<gen_args, gen_result, dec_arg, dec_result, range_arg, range_result>>
scanVars  == <<marked, ids, scan_result, hom_call, homography>>
batchVars == <<images, scan_results, organized, failed_scans, pc, idx, exam_order, log,
               exam_pos, scanned_pages, saved_pdf, results, sub_exc>>
\* the state of scan_submission after organize_by_page
subVars   == <<exam_pos, scanned_pages, saved_pdf, results, sub_exc>>
dewarpVars == <<doc_page, transform, photo, extracted>>
placeVars == <<page_image, place_args, place_result>>
genVars   == <<exam_call, exam_pc, marked_pages, rendered, exam_outcome>>
agentVars == <<a_pc, a_op, lock_attr, lock_holder, my_lock, last_request_time, now, ticks,
               wake, slept, called_at, stamps, retries>>
processVars == <<pe_pc, exams_data, pe_next, max_workers, work_queue, fut, updated, completed_tasks, pe_results>>
markVars  == <<bm_call, bm_pc, bm_results>>
vars      == <<codecVars, scanVars, batchVars, dewarpVars, placeVars, genVars, agentVars,
               processVars, markVars>>
\* what the actions of one specification leave alone
restCodec == <<scanVars, batchVars, dewarpVars, placeVars, genVars, agentVars,
               processVars, markVars>>
restScan  == <<codecVars, batchVars, dewarpVars, placeVars, genVars, agentVars,
               processVars, markVars>>
restBatch == <<codecVars, scanVars, dewarpVars, placeVars, genVars, agentVars,
               processVars, markVars>>
restDewarp == <<codecVars, scanVars, batchVars, placeVars, genVars, agentVars,
               processVars, markVars>>
restPlace == <<codecVars, scanVars, batchVars, dewarpVars, genVars, agentVars,
               processVars, markVars>>
restGen   == <<codecVars, scanVars, batchVars, dewarpVars, placeVars, agentVars,
               processVars, markVars>>
restAgent == <<codecVars, scanVars, batchVars, dewarpVars, placeVars, genVars,
               processVars, markVars>>
restProcess == <<codecVars, scanVars, batchVars, dewarpVars, placeVars, genVars, agentVars,
                 markVars>>
restMark  == <<codecVars, scanVars, batchVars, dewarpVars, placeVars, genVars, agentVars,
               processVars>>

----------------------------------------------------------------------------
(* Python values *)

None == <<>>
Some(x) == <<x>>
Return(v) == [exc |-> "none", value |-> v]
Raise(e) == [exc |-> e, value |-> None]

----------------------------------------------------------------------------
(* Bounds of the model *)

\* calculate_markers is called with arguments up to this far outside the valid ranges
ArgSlack == 1
\* most detections the detector reports for one image
MaxDetections == 4
\* most images in one batch
MaxImages == 3
\* pixel positions of a page
NumPixels == 4
\* how often the clock advances while the threads run
MaxTicks == 3
\* most rate-limit errors one thread's requests run into
MaxRetries == 1
\* exams handed to process_exams
NumExams == 2
\* largest max_workers of the executor
MaxWorkers == 2
\* most PDFs batch_mark_3eme_exams finds
MaxPdfs == 3

----------------------------------------------------------------------------
(* MarkerConfig *)

MAX_MARKER_ID == 999
PAGES_PER_EXAM == 9
CORNERS_PER_PAGE == 4
BLOCK_SIZE == PAGES_PER_EXAM * CORNERS_PER_PAGE
CORNER_NAMES == <<"top_left", "top_right", "bottom_left", "bottom_right">>
FIXED_MARKER_IDS == <<0, 1, 2>>
MAX_EXAMS == (MAX_MARKER_ID + 1) \div BLOCK_SIZE
MARKER_SIZE == 90
MARGIN == 20
DOC_WIDTH == 1654
DOC_HEIGHT == 2338

----------------------------------------------------------------------------
(* MarkerGenerator.calculate_markers *)

\* calculate_markers with the exam bound taken inclusive (exam_id <= MAX_EXAMS)
calculate_markers_inclusive(exam_id, page_number) ==
    IF ~(0 <= page_number /\ page_number < PAGES_PER_EXAM) THEN Raise("ValueError")
    ELSE IF ~(0 <= exam_id /\ exam_id <= MAX_EXAMS) THEN Raise("ValueError")
    ELSE
        LET base == exam_id * BLOCK_SIZE + page_number * CORNERS_PER_PAGE
            fourth_id == base + (CORNERS_PER_PAGE - 1)
        IN  IF fourth_id > MAX_MARKER_ID THEN Raise("ValueError")
            ELSE Return(FIXED_MARKER_IDS \o <<fourth_id>>)

\* calculate_markers returning the four consecutive ids of the page's sub-block
calculate_markers_block(exam_id, page_number) ==
    IF ~(0 <= page_number /\ page_number < PAGES_PER_EXAM) THEN Raise("ValueError")
    ELSE IF ~(0 <= exam_id /\ exam_id < MAX_EXAMS) THEN Raise("ValueError")
    ELSE
        LET base == exam_id * BLOCK_SIZE + page_number * CORNERS_PER_PAGE
        IN  Return(<<base, base + 1, base + 2, base + 3>>)

\* calculate_markers with the fourth id at the start of the page's sub-block
calculate_markers_nooffset(exam_id, page_number) ==
    IF ~(0 <= page_number /\ page_number < PAGES_PER_EXAM) THEN Raise("ValueError")
    ELSE IF ~(0 <= exam_id /\ exam_id < MAX_EXAMS) THEN Raise("ValueError")
    ELSE
        LET fourth_id == exam_id * BLOCK_SIZE + page_number * CORNERS_PER_PAGE
        IN  IF fourth_id > MAX_MARKER_ID THEN Raise("ValueError")
            ELSE Return(FIXED_MARKER_IDS \o <<fourth_id>>)

calculate_markers(exam_id, page_number) ==
    IF ~(0 <= page_number /\ page_number < PAGES_PER_EXAM) THEN Raise("ValueError")
    ELSE IF ~(0 <= exam_id /\ exam_id < MAX_EXAMS) THEN Raise("ValueError")
    ELSE
        LET base == exam_id * BLOCK_SIZE + page_number * CORNERS_PER_PAGE
            fourth_id == base + (CORNERS_PER_PAGE - 1)
            fixed == FIXED_MARKER_IDS
        IN  IF \E k \in 1..Len(fixed) : fixed[k] > MAX_MARKER_ID THEN Raise("ValueError")
            ELSE IF fourth_id > MAX_MARKER_ID THEN Raise("ValueError")
            ELSE Return(fixed \o <<fourth_id>>)

----------------------------------------------------------------------------
(* ExamScanner.decode_marker *)

\* MarkerGenerator.get_exam_marker_range(exam_id)
get_exam_marker_range(exam_id) ==
    IF ~(0 <= exam_id /\ exam_id < MAX_EXAMS) THEN Raise("ValueError")
    ELSE LET first == exam_id * BLOCK_SIZE
             last  == first + BLOCK_SIZE - 1
         IN  Return(<<first, last>>)

\* decode_marker dividing the remainder by PAGES_PER_EXAM instead of CORNERS_PER_PAGE
decode_marker_divpages(marker_id) ==
    LET exam_id == marker_id \div BLOCK_SIZE
        remainder == marker_id % BLOCK_SIZE
        page_number == remainder \div PAGES_PER_EXAM
        corner_id == remainder % CORNERS_PER_PAGE
    IN  <<exam_id, page_number, CORNER_NAMES[corner_id + 1]>>

decode_marker(marker_id) ==
    LET exam_id == marker_id \div BLOCK_SIZE
        remainder == marker_id % BLOCK_SIZE
        page_number == remainder \div CORNERS_PER_PAGE
        corner_id == remainder % CORNERS_PER_PAGE
        corner_names == <<"top_left", "top_right", "bottom_left", "bottom_right">>
    IN  <<exam_id, page_number, corner_names[corner_id + 1]>>

----------------------------------------------------------------------------
(* ExamScanner._process_markers, _create_error_result, scan_page.            *)
(* An image is given by the ids the detector reports for it, in the          *)
(* detector's order (ids.flatten()); the pixel quad the detector reports     *)
(* with its k-th id is the uninterpreted value <<"quad", k>>.                *)

\* the 'corners' _detect_markers returns along with the ids: corners[k][0] is a quad
DetectedCorners(detected) == [k \in 1..Len(detected) |-> << <<"quad", k>> >>]

_process_markers(detected) ==
    [detected_markers |->
        [k \in 1..Len(detected) |->
            [marker_id   |-> detected[k],
             exam_id     |-> decode_marker(detected[k])[1],
             page_number |-> decode_marker(detected[k])[2],
             corner      |-> decode_marker(detected[k])[3]]],
     exam_ids     |-> {decode_marker(detected[k])[1] : k \in 1..Len(detected)},
     page_numbers |-> {decode_marker(detected[k])[2] : k \in 1..Len(detected)}]

\* _create_error_result that leaves exam_id out of the result
_create_error_result_noexam(error, markers_found, detected_markers, exam_id) ==
    LET result == [success       |-> FALSE,
                   error         |-> error,
                   exam_id       |-> None,
                   page_number   |-> None,
                   markers_found |-> markers_found]
    IN  IF detected_markers # None
        THEN result @@ ("detected_markers" :> detected_markers[1])
        ELSE result

\* detected_markers and exam_id are Optional: None, or Some(value)
_create_error_result(error, markers_found, detected_markers, exam_id) ==
    LET result == [success       |-> FALSE,
                   error         |-> error,
                   exam_id       |-> exam_id,
                   page_number   |-> None,
                   markers_found |-> markers_found]
    IN  IF detected_markers # None
        THEN result @@ ("detected_markers" :> detected_markers[1])
        ELSE result

SuccessResult(detected, exam_id, page_number) ==
    [success              |-> TRUE,
     exam_id              |-> Some(exam_id),
     page_number          |-> Some(page_number),
     markers_found        |-> Len(detected),
     expected_markers     |-> CORNERS_PER_PAGE,
     detected_markers     |-> _process_markers(detected).detected_markers,
     corners              |-> DetectedCorners(detected),
     all_corners_detected |-> (Len(detected) = CORNERS_PER_PAGE)]

\* scan_page without the check of the page numbers: one of them is picked
scan_page_nopagecheck(detected) ==
    IF Len(detected) = 0 THEN _create_error_result("No markers detected", 0, None, None)
    ELSE
        LET pm == _process_markers(detected)
        IN  IF Cardinality(pm.exam_ids) > 1
            THEN _create_error_result("Multiple exam IDs detected", Len(detected),
                                      Some(pm.detected_markers), None)
            ELSE SuccessResult(detected, CHOOSE e \in pm.exam_ids : TRUE,
                               CHOOSE q \in pm.page_numbers : TRUE)

\* scan_page that fails when fewer than CORNERS_PER_PAGE markers are detected
scan_page_strict(detected) ==
    IF Len(detected) = 0 THEN _create_error_result("No markers detected", 0, None, None)
    ELSE
        LET pm == _process_markers(detected)
        IN  IF Cardinality(pm.exam_ids) > 1
            THEN _create_error_result("Multiple exam IDs detected", Len(detected),
                                      Some(pm.detected_markers), None)
            ELSE IF Cardinality(pm.page_numbers) > 1
            THEN _create_error_result("Multiple page numbers detected", Len(detected),
                                      Some(pm.detected_markers),
                                      Some(CHOOSE e \in pm.exam_ids : TRUE))
            ELSE IF Len(detected) < CORNERS_PER_PAGE
            THEN _create_error_result("Not all corners detected", Len(detected),
                                      Some(pm.detected_markers), None)
            ELSE SuccessResult(detected, CHOOSE e \in pm.exam_ids : TRUE,
                               CHOOSE q \in pm.page_numbers : TRUE)

\* scan_page validating the page numbers before the exam ids
scan_page_pagefirst(detected) ==
    IF Len(detected) = 0 THEN _create_error_result("No markers detected", 0, None, None)
    ELSE
        LET pm == _process_markers(detected)
        IN  IF Cardinality(pm.page_numbers) > 1
            THEN _create_error_result("Multiple page numbers detected", Len(detected),
                                      Some(pm.detected_markers),
                                      Some(CHOOSE e \in pm.exam_ids : TRUE))
            ELSE IF Cardinality(pm.exam_ids) > 1
            THEN _create_error_result("Multiple exam IDs detected", Len(detected),
                                      Some(pm.detected_markers), None)
            ELSE IF pm.exam_ids = {} \/ pm.page_numbers = {}
            THEN _create_error_result(
                     "Could not decode valid exam ID or page number from detected markers",
                     Len(detected), Some(pm.detected_markers), None)
            ELSE SuccessResult(detected, CHOOSE e \in pm.exam_ids : TRUE,
                               CHOOSE q \in pm.page_numbers : TRUE)

scan_page(detected) ==
    IF Len(detected) = 0 THEN _create_error_result("No markers detected", 0, None, None)
    ELSE
        LET pm == _process_markers(detected)
            detected_markers == pm.detected_markers
            exam_ids == pm.exam_ids
            page_numbers == pm.page_numbers
        IN  IF Cardinality(exam_ids) > 1
            THEN _create_error_result("Multiple exam IDs detected", Len(detected),
                                      Some(detected_markers), None)
            ELSE IF Cardinality(page_numbers) > 1
            THEN _create_error_result("Multiple page numbers detected", Len(detected),
                                      Some(detected_markers),
                                      Some(CHOOSE e \in exam_ids : TRUE))
            ELSE IF exam_ids = {} \/ page_numbers = {}
            THEN _create_error_result(
                     "Could not decode valid exam ID or page number from detected markers",
                     Len(detected), Some(detected_markers), None)
            ELSE SuccessResult(detected, CHOOSE e \in exam_ids : TRUE,
                               CHOOSE q \in page_numbers : TRUE)

----------------------------------------------------------------------------
(* CoordinateMapper: layout of the markers, correspondences, homography.     *)
(* The transform cv2.findHomography fits is kept as the correspondences it   *)
(* was given; the centre of a quad is an uninterpreted point of the image.   *)

calculate_original_marker_positions ==
    LET m == MARGIN
        s == MARKER_SIZE
        half == MARKER_SIZE \div 2
    IN  [top_left |->
             [center  |-> <<m + half, m + half>>,
              corners |-> <<<<m, m>>, <<m + s, m>>, <<m + s, m + s>>, <<m, m + s>> >>],
         top_right |->
             [center  |-> <<DOC_WIDTH - m - half, m + half>>,
              corners |-> <<<<DOC_WIDTH - m - s, m>>, <<DOC_WIDTH - m, m>>,
                            <<DOC_WIDTH - m, m + s>>, <<DOC_WIDTH - m - s, m + s>> >>],
         bottom_left |->
             [center  |-> <<m + half, DOC_HEIGHT - m - half>>,
              corners |-> <<<<m, DOC_HEIGHT - m - s>>, <<m + s, DOC_HEIGHT - m - s>>,
                            <<m + s, DOC_HEIGHT - m>>, <<m, DOC_HEIGHT - m>> >>],
         bottom_right |->
             [center  |-> <<DOC_WIDTH - m - half, DOC_HEIGHT - m - half>>,
              corners |-> <<<<DOC_WIDTH - m - s, DOC_HEIGHT - m - s>>,
                            <<DOC_WIDTH - m, DOC_HEIGHT - m - s>>,
                            <<DOC_WIDTH - m, DOC_HEIGHT - m>>,
                            <<DOC_WIDTH - m - s, DOC_HEIGHT - m>> >>]]

calculate_marker_center(corners) == <<"center", corners>>

\* cv2.findHomography(src_points, dst_points)
findHomography(src_points, dst_points) == [src |-> src_points, dst |-> dst_points]

\* compute_homography asking for 3 correspondences only
compute_homography_min3(detected_markers, corners_data) ==
    IF Len(detected_markers) < 3 THEN None
    ELSE
        LET original_markers == calculate_original_marker_positions
            matched == SelectSeq([i \in 1..Len(detected_markers) |-> i],
                                 LAMBDA i : detected_markers[i].corner \in DOMAIN original_markers)
            src_points == [k \in 1..Len(matched) |->
                              original_markers[detected_markers[matched[k]].corner].center]
            dst_points == [k \in 1..Len(matched) |->
                              calculate_marker_center(corners_data[matched[k]][1])]
        IN  IF Len(src_points) < 3 THEN None
            ELSE Some(findHomography(src_points, dst_points))

\* returns None, or Some(transform)
compute_homography(detected_markers, corners_data) ==
    IF Len(detected_markers) < 4 THEN None
    ELSE
        LET original_markers == calculate_original_marker_positions
            matched == SelectSeq([i \in 1..Len(detected_markers) |-> i],
                                 LAMBDA i : detected_markers[i].corner \in DOMAIN original_markers)
            src_points == [k \in 1..Len(matched) |->
                              original_markers[detected_markers[matched[k]].corner].center]
            dst_points == [k \in 1..Len(matched) |->
                              calculate_marker_center(corners_data[matched[k]][1])]
        IN  IF Len(src_points) < 4 THEN None
            ELSE Some(findHomography(src_points, dst_points))

compute_homography_from_scan(result) ==
    IF ~result.success THEN None
    ELSE IF result.markers_found < 4 THEN None
    ELSE compute_homography(result.detected_markers, result.corners)

----------------------------------------------------------------------------
(* Initial values of the groups of variables *)

\* the exam ids add_exams hands to process_exams
ExamIds == 1..NumExams

\* Agent and AgentsConfig: times are kept in milliseconds
Second == 1000
RATE_LIMIT == 150
MIN_INTERVAL == (60 * Second) \div RATE_LIMIT
\* the pool threads running _classify_question_type
Threads == {"t1", "t2"}
\* the class has no attribute last_request_time yet
Unset == 0 - 1
\* time.time() when the first thread starts
StartTime == 10 * Second
\* the clock is read in steps of half a MIN_INTERVAL
ClockStep == MIN_INTERVAL \div 2
\* retry delays parsed from the API's error messages
RetryDelays == {Second}
NoCall == [name |-> "none", retry_delay |-> 0]

CodecInit ==
    /\ gen_args = None
    /\ gen_result = None
    /\ dec_arg = None
    /\ dec_result = None
    /\ range_arg = None
    /\ range_result = None

ScanInit ==
    /\ marked = None
    /\ ids = <<>>
    /\ scan_result = None
    /\ hom_call = "none"
    /\ homography = None

BatchInit ==
    /\ images = <<>>
    /\ scan_results = <<>>
    /\ organized = <<>>
    /\ failed_scans = 0
    /\ pc = "load"
    /\ idx = 0
    /\ exam_order = <<>>
    /\ log = <<>>
    /\ exam_pos = 0
    /\ scanned_pages = <<>>
    /\ saved_pdf = <<>>
    /\ results = <<>>
    /\ sub_exc = "none"

DewarpInit ==
    /\ doc_page = None
    /\ transform = None
    /\ photo = None
    /\ extracted = None

PlaceInit ==
    /\ page_image = None
    /\ place_args = None
    /\ place_result = None

GenInit ==
    /\ exam_call = None
    /\ exam_pc = "idle"
    /\ marked_pages = <<>>
    /\ rendered = <<>>
    /\ exam_outcome = None

AgentInit ==
    /\ a_pc = [t \in Threads |-> "start"]
    /\ a_op = [t \in Threads |-> NoCall]
    /\ lock_attr = "none"
    /\ lock_holder = [l \in Threads |-> "free"]
    /\ my_lock = [t \in Threads |-> "none"]
    /\ last_request_time = Unset
    /\ now = StartTime
    /\ ticks = 0
    /\ wake = [t \in Threads |-> 0]
    /\ slept = [t \in Threads |-> 0]
    /\ called_at = [t \in Threads |-> 0]
    /\ stamps = <<>>
    /\ retries = [t \in Threads |-> 0]

ProcessInit ==
    /\ pe_pc = "new"
    /\ exams_data = 0
    /\ pe_next = 0
    /\ max_workers = 0
    /\ work_queue = <<>>
    /\ fut = [e \in ExamIds |-> [f1 |-> "unsubmitted", f2 |-> "unsubmitted", f3 |-> "unsubmitted"]]
    /\ updated = {}
    /\ completed_tasks = 0
    /\ pe_results = None

MarkInit ==
    /\ bm_call = None
    /\ bm_pc = "idle"
    /\ bm_results = <<>>

Init ==
    /\ CodecInit /\ ScanInit /\ BatchInit /\ DewarpInit /\ PlaceInit /\ GenInit /\ AgentInit
    /\ ProcessInit /\ MarkInit

----------------------------------------------------------------------------
(* SpecCodec: the generator and the scanner's decoder, called on their own *)

ExamArgs == (0 - ArgSlack)..(MAX_EXAMS + ArgSlack)
PageArgs == (0 - ArgSlack)..(PAGES_PER_EXAM + ArgSlack)
MarkerIds == 0..MAX_MARKER_ID

\* a call calculate_markers(exam_id, page_number)
CalculateMarkers ==
    \E exam_id \in ExamArgs, page_number \in PageArgs :
        /\ gen_args = None /\ dec_arg = None
        /\ gen_args' = <<exam_id, page_number>>
        /\ gen_result' = Some(calculate_markers(exam_id, page_number))
        /\ UNCHANGED <<dec_arg, dec_result, range_arg, range_result, restCodec>>

\* the scanner decodes the page-unique id the generator returned
DecodeFourth ==
    /\ gen_result # None /\ gen_result[1].exc = "none" /\ dec_arg = None
    /\ dec_arg' = Some(gen_result[1].value[CORNERS_PER_PAGE])
    /\ dec_result' = Some(decode_marker(gen_result[1].value[CORNERS_PER_PAGE]))
    /\ UNCHANGED <<gen_args, gen_result, range_arg, range_result, restCodec>>

\* a call decode_marker(marker_id) on any id of the dictionary
DecodeMarker ==
    \E marker_id \in MarkerIds :
        /\ gen_args = None /\ dec_arg = None
        /\ dec_arg' = Some(marker_id)
        /\ dec_result' = Some(decode_marker(marker_id))
        /\ UNCHANGED <<gen_args, gen_result, range_arg, range_result, restCodec>>

\* a call get_exam_marker_range(exam_id)
GetExamMarkerRange ==
    \E exam_id \in ExamArgs :
        /\ range_arg = None /\ dec_arg = None
        /\ range_arg' = Some(exam_id)
        /\ range_result' = Some(get_exam_marker_range(exam_id))
        /\ UNCHANGED <<gen_args, gen_result, dec_arg, dec_result, restCodec>>

CodecNext == CalculateMarkers \/ DecodeFourth \/ DecodeMarker \/ GetExamMarkerRange

SpecCodec == Init /\ [][CodecNext]_vars

----------------------------------------------------------------------------
(* Claims checked under SpecCodec *)

Returned == gen_result # None /\ gen_result[1].exc = "none"
ValidAddress(exam_id, page_number) ==
    /\ 0 <= exam_id /\ exam_id < MAX_EXAMS
    /\ 0 <= page_number /\ page_number < PAGES_PER_EXAM

\* C1: decode_marker applied to the fourth id returned by
\* calculate_markers(exam_id, page_number) returns exactly
\* (exam_id, page_number, 'bottom_right'); (1, 0) encodes to 39 and 39 decodes
\* to (1, 0, 'bottom_right').
C1_RoundTrip ==
    /\ (Returned /\ dec_arg = Some(gen_result[1].value[CORNERS_PER_PAGE]))
          => dec_result = Some(<<gen_args[1], gen_args[2], "bottom_right">>)
    /\ (ValidAddress(1, 0) /\ gen_args = <<1, 0>> /\ gen_result # None)
          => (Returned /\ gen_result[1].value[CORNERS_PER_PAGE] = 39)
    /\ dec_arg = Some(39) => dec_result = Some(<<1, 0, "bottom_right">>)

C1_Witness ==
    /\ Returned /\ gen_args = <<1, 0>>
    /\ dec_arg = Some(gen_result[1].value[CORNERS_PER_PAGE])
    /\ dec_result = Some(<<1, 0, "bottom_right">>)

\* C4: for every marker id in 0..MAX_MARKER_ID the decoded exam_id is
\* < MAX_EXAMS, the decoded page_number is < PAGES_PER_EXAM and the corner is
\* one of CORNER_NAMES.
C4_DecodedAddressInRange ==
    dec_result # None =>
        /\ dec_result[1][1] >= 0 /\ dec_result[1][1] < MAX_EXAMS
        /\ dec_result[1][2] >= 0 /\ dec_result[1][2] < PAGES_PER_EXAM
        /\ \E k \in 1..Len(CORNER_NAMES) : dec_result[1][3] = CORNER_NAMES[k]

\* C5: calculate_markers returns a result exactly when
\* 0 <= exam_id < MAX_EXAMS and 0 <= page_number < PAGES_PER_EXAM and raises
\* ValueError otherwise.
C5_CapacityBoundary ==
    gen_result # None =>
        IF ValidAddress(gen_args[1], gen_args[2])
        THEN gen_result[1].exc = "none"
        ELSE gen_result[1] = Raise("ValueError")

C5_Witness ==
    /\ gen_args = <<MAX_EXAMS - 1, PAGES_PER_EXAM - 1>>
    /\ Returned

\* C6: every list calculate_markers returns has exactly CORNERS_PER_PAGE ids
\* and its first three are FIXED_MARKER_IDS in the same order, whatever
\* exam_id and page_number.
C6_FixedCorners ==
    Returned =>
        /\ Len(gen_result[1].value) = CORNERS_PER_PAGE
        /\ SubSeq(gen_result[1].value, 1, CORNERS_PER_PAGE - 1) = FIXED_MARKER_IDS

C6_Witness ==
    /\ Returned
    /\ gen_args # <<0, 0>>
    /\ SubSeq(gen_result[1].value, 1, 3) = <<0, 1, 2>>

\* C20: for every valid exam_id, get_exam_marker_range(exam_id) returns
\* (exam_id * BLOCK_SIZE, exam_id * BLOCK_SIZE + BLOCK_SIZE - 1) and this range
\* contains every id returned by calculate_markers(exam_id, p) for every valid
\* page p, the fixed identifiers as well as the dynamic one; for exam_id
\* outside [0, MAX_EXAMS) it raises ValueError.
C20_RangeCoversExam ==
    range_arg # None =>
        LET exam_id == range_arg[1]
            out == range_result[1]
        IN  IF 0 <= exam_id /\ exam_id < MAX_EXAMS
            THEN /\ out = Return(<<exam_id * BLOCK_SIZE, exam_id * BLOCK_SIZE + BLOCK_SIZE - 1>>)
                 /\ (Returned /\ gen_args[1] = exam_id) =>
                        \A k \in 1..Len(gen_result[1].value) :
                            /\ out.value[1] <= gen_result[1].value[k]
                            /\ gen_result[1].value[k] <= out.value[2]
            ELSE out = Raise("ValueError")

\* the valid addresses other than the one of the call
OtherAddresses ==
    {a \in (0..(MAX_EXAMS - 1)) \X (0..(PAGES_PER_EXAM - 1)) : a # gen_args}

\* C23: for all valid (exam_id, page_number) the fourth id returned by
\* calculate_markers is strictly greater than every fixed marker id, and two
\* different valid pairs never get the same fourth id, so the four ids of one
\* page are pairwise distinct.
C23_UniqueFourthId ==
    Returned =>
        LET marker_ids == gen_result[1].value
        IN  /\ \A k \in 1..Len(FIXED_MARKER_IDS) : marker_ids[CORNERS_PER_PAGE] > FIXED_MARKER_IDS[k]
            /\ \A a \in OtherAddresses :
                   calculate_markers(a[1], a[2]).value[CORNERS_PER_PAGE] # marker_ids[CORNERS_PER_PAGE]
            /\ \A j, k \in 1..Len(marker_ids) : j # k => marker_ids[j] # marker_ids[k]

\* the first page of the first exam, whose fourth id is the smallest of all
C23_Witness ==
    /\ Returned
    /\ gen_args = <<0, 0>>
    /\ gen_result[1].value[CORNERS_PER_PAGE] = Len(FIXED_MARKER_IDS)

----------------------------------------------------------------------------
(* SpecScan: one photographed image.  ExamScanner._detect_markers hands       *)
(* scan_page the ids the detector read in the image; the image is either a    *)
(* page the generator marked, read completely, or any list of up to           *)
(* MaxDetections ids of DetectPool.                                           *)

Range(f) == {f[k] : k \in DOMAIN f}
PoolPages == {<<0, 0>>, <<0, 1>>, <<1, 0>>, <<1, 1>>}
\* the ids printed on the pages of PoolPages, and the last id of the dictionary
DetectPool ==
    UNION {Range(calculate_markers(a[1], a[2]).value) : a \in PoolPages} \cup {MAX_MARKER_ID}

\* the detector reads the four markers of a page marked as (exam_id, page_number)
PhotographPage ==
    \E exam_id \in 0..(MAX_EXAMS - 1), page_number \in 0..(PAGES_PER_EXAM - 1) :
        /\ marked = None /\ ids = <<>> /\ scan_result = None
        /\ calculate_markers(exam_id, page_number).exc = "none"
        /\ marked' = <<exam_id, page_number>>
        /\ ids' = calculate_markers(exam_id, page_number).value
        /\ UNCHANGED <<scan_result, hom_call, homography, restScan>>

\* the detector reports one more marker id
Detect ==
    \E marker_id \in DetectPool :
        /\ scan_result = None /\ Len(ids) < MaxDetections
        /\ ids' = Append(ids, marker_id)
        /\ UNCHANGED <<marked, scan_result, hom_call, homography, restScan>>

\* scan_page on the image
ScanPage ==
    /\ scan_result = None
    /\ scan_result' = Some(scan_page(ids))
    /\ UNCHANGED <<marked, ids, hom_call, homography, restScan>>

\* compute_homography_from_scan on the result of scan_page
ComputeHomographyFromScan ==
    /\ scan_result # None /\ hom_call = "none"
    /\ hom_call' = "compute_homography_from_scan"
    /\ homography' = Some(compute_homography_from_scan(scan_result[1]))
    /\ UNCHANGED <<marked, ids, scan_result, restScan>>

\* compute_homography on the decoded detections of the image and their quads
ComputeHomography ==
    /\ scan_result # None /\ hom_call = "none"
    /\ hom_call' = "compute_homography"
    /\ homography' = Some(compute_homography(_process_markers(ids).detected_markers,
                                             DetectedCorners(ids)))
    /\ UNCHANGED <<marked, ids, scan_result, restScan>>

ScanNext ==
    PhotographPage \/ Detect \/ ScanPage \/ ComputeHomographyFromScan \/ ComputeHomography

SpecScan == Init /\ [][ScanNext]_vars

----------------------------------------------------------------------------
(* Claims checked under SpecScan *)

DecodedExams == {decode_marker(ids[k])[1] : k \in 1..Len(ids)}
DecodedPages == {decode_marker(ids[k])[2] : k \in 1..Len(ids)}

\* C2: when the detections of an image are exactly the four ids
\* calculate_markers(exam_id, page_number) returns, scan_page returns a success
\* result with that exam_id and that page_number.
C2_MarkedPageIdentified ==
    (/\ scan_result # None /\ marked # None
     /\ ids = calculate_markers(marked[1], marked[2]).value)
        => /\ scan_result[1].success
           /\ scan_result[1].exam_id = Some(marked[1])
           /\ scan_result[1].page_number = Some(marked[2])

\* C7: scan_page returns success only if every detected id decodes to the
\* exam_id and page_number of the result; detections that decode to more than
\* one exam_id or more than one page_number give success = False and
\* page_number = None, whatever their multiplicities.
C7_NoMajority ==
    scan_result # None =>
        /\ scan_result[1].success =>
              \A k \in 1..Len(ids) :
                  /\ Some(decode_marker(ids[k])[1]) = scan_result[1].exam_id
                  /\ Some(decode_marker(ids[k])[2]) = scan_result[1].page_number
        /\ (Cardinality(DecodedExams) > 1 \/ Cardinality(DecodedPages) > 1) =>
              /\ scan_result[1].success = FALSE
              /\ scan_result[1].page_number = None

\* three detections of one page against one of another page: still a failure
C7_Witness ==
    /\ scan_result # None
    /\ Len(ids) = 4
    /\ Cardinality({k \in 1..4 : decode_marker(ids[k])[2] = 0}) = 3
    /\ Cardinality(DecodedPages) = 2
    /\ scan_result[1].success = FALSE

\* C8: detections that decode to one exam_id and to two or more page numbers
\* give the 'Multiple page numbers detected' failure with page_number None and
\* exam_id that single exam_id.
C8_PageConflict ==
    (scan_result # None /\ Cardinality(DecodedExams) = 1 /\ Cardinality(DecodedPages) > 1)
        => /\ scan_result[1].success = FALSE
           /\ scan_result[1].error = "Multiple page numbers detected"
           /\ scan_result[1].page_number = None
           /\ \A e \in DecodedExams : scan_result[1].exam_id = Some(e)

C8_Witness ==
    /\ scan_result # None
    /\ DecodedExams = {1}
    /\ DecodedPages = {0, 1}
    /\ scan_result[1].exam_id = Some(1)

\* C9: a non-empty list of detections that all decode to one exam_id and one
\* page_number gives success with markers_found the number of detections and
\* all_corners_detected = (markers_found = 4).
C9_DegradedSuccess ==
    (/\ scan_result # None /\ Len(ids) > 0
     /\ Cardinality(DecodedExams) = 1 /\ Cardinality(DecodedPages) = 1)
        => /\ scan_result[1].success
           /\ scan_result[1].markers_found = Len(ids)
           /\ scan_result[1].all_corners_detected = (scan_result[1].markers_found = 4)
           /\ Len(ids) \in 1..3 => scan_result[1].all_corners_detected = FALSE

C9_Witness ==
    /\ scan_result # None
    /\ Len(ids) = 2
    /\ scan_result[1].success
    /\ scan_result[1].markers_found = 2
    /\ scan_result[1].all_corners_detected = FALSE

\* the (document point, image point) pairs that can be built from the detections
PairsBuildable ==
    Cardinality({k \in 1..Len(ids) :
        decode_marker(ids[k])[3] \in DOMAIN calculate_original_marker_positions})

\* C12: compute_homography_from_scan returns None when the scan result is a
\* failure or has markers_found < 4, and compute_homography returns None
\* whenever fewer than 4 (document point, image point) pairs can be built.
C12_InsufficientCorrespondences ==
    /\ (/\ hom_call = "compute_homography_from_scan"
        /\ (~scan_result[1].success \/ scan_result[1].markers_found < 4))
          => homography = Some(None)
    /\ (hom_call = "compute_homography" /\ PairsBuildable < 4)
          => homography = Some(None)

C12_Witness ==
    /\ hom_call = "compute_homography"
    /\ scan_result[1].success
    /\ PairsBuildable = 3
    /\ homography = Some(None)

\* C13: whenever compute_homography goes on to estimate a transform, the
\* correspondences hold exactly one pair for each of the four corners, that
\* is four distinct document-space points.
C13_OnePairPerCorner ==
    (homography # None /\ homography[1] # None) =>
        LET src == homography[1][1].src
        IN  /\ Len(src) = 4
            /\ Range(src) = {calculate_original_marker_positions[c].center :
                                c \in DOMAIN calculate_original_marker_positions}

\* C22: when the detections decode to more than one distinct exam_id,
\* scan_page returns the 'Multiple exam IDs detected' failure with exam_id
\* None, also when the page numbers conflict as well; the page-number conflict
\* is reported only when the exam id is unambiguous.
C22_ExamCheckFirst ==
    scan_result # None =>
        /\ Cardinality(DecodedExams) > 1 =>
               /\ scan_result[1].success = FALSE
               /\ scan_result[1].error = "Multiple exam IDs detected"
               /\ scan_result[1].exam_id = None
        /\ (~scan_result[1].success /\ scan_result[1].error = "Multiple page numbers detected")
               => Cardinality(DecodedExams) = 1

\* two exam ids and two page numbers in one image
C22_Witness ==
    /\ scan_result # None
    /\ Cardinality(DecodedExams) > 1
    /\ Cardinality(DecodedPages) > 1
    /\ scan_result[1].error = "Multiple exam IDs detected"

\* the page-unique id of (exam_id, page_number)
UniqueId(exam_id, page_number) ==
    exam_id * BLOCK_SIZE + page_number * CORNERS_PER_PAGE + (CORNERS_PER_PAGE - 1)

\* C26: scan_page returns success with (exam_id, page_number) only if the
\* detections include that page's unique id
\* exam_id * BLOCK_SIZE + page_number * CORNERS_PER_PAGE + 3; a detection list
\* made only of the shared fixed ids 0, 1, 2 never yields a success result
\* that names a document and page.
C26_SuccessNeedsUniqueId ==
    (scan_result # None /\ scan_result[1].success) =>
        /\ UniqueId(scan_result[1].exam_id[1], scan_result[1].page_number[1]) \in Range(ids)
        /\ ~(Range(ids) \subseteq Range(FIXED_MARKER_IDS))

----------------------------------------------------------------------------
(* SpecBatch: a batch of photographed pages goes through                      *)
(* ExamScanner.scan_multiple_pages and then ExamScanner.organize_by_page, in  *)
(* the order MarkerManager.scan_submission calls them.  Each loop iteration   *)
(* is one step.                                                               *)

\* images a batch is made of, each given by the ids the detector reads in it:
\* no marker; one marker of page (0,0); page (0,0) as printed; one marker of
\* page (0,1); one marker of page (1,0); markers of two pages of exam 0;
\* page (1,0) as printed; the four ids of the sub-block of page (0,1); one
\* marker of page (1,0) reported four times
ImagePool ==
    {<<>>, <<3>>, calculate_markers(0, 0).value, <<7>>, <<39>>, <<3, 7>>,
     calculate_markers(1, 0).value, <<4, 5, 6, 7>>, <<39, 39, 39, 39>>}

\* the caller puts one more image into the list it will pass
AddImage ==
    \E img \in ImagePool :
        /\ pc = "load" /\ Len(images) < MaxImages
        /\ images' = Append(images, img)
        /\ UNCHANGED <<scan_results, organized, failed_scans, pc, idx, exam_order, log,
                       subVars, restBatch>>

\* scan_multiple_pages(images) is entered: results = []
StartScan ==
    /\ pc = "load"
    /\ pc' = "scan"
    /\ idx' = 0
    /\ scan_results' = <<>>
    /\ UNCHANGED <<images, organized, failed_scans, exam_order, log, subVars, restBatch>>

\* the loop of scan_multiple_pages leaving at the first failure result
ScanImage_break ==
    /\ pc = "scan" /\ idx < Len(images)
    /\ LET result == scan_page(images[idx + 1])
       IN  IF result.success
           THEN /\ scan_results' = Append(scan_results, ("image_index" :> idx) @@ result)
                /\ idx' = idx + 1
                /\ pc' = pc
           ELSE /\ scan_results' = Append(scan_results, ("image_index" :> idx) @@ result)
                /\ idx' = Len(images)
                /\ pc' = pc
    /\ UNCHANGED <<images, organized, failed_scans, exam_order, log, subVars, restBatch>>

\* one iteration of the loop of scan_multiple_pages, for i = idx
ScanImage ==
    /\ pc = "scan" /\ idx < Len(images)
    /\ LET result == scan_page(images[idx + 1])
       IN  scan_results' = Append(scan_results, ("image_index" :> idx) @@ result)
    /\ idx' = idx + 1
    /\ UNCHANGED <<images, organized, failed_scans, pc, exam_order, log, subVars, restBatch>>

\* scan_multiple_pages returns; organize_by_page(scan_results) is entered
StartOrganize ==
    /\ pc = "scan" /\ idx = Len(images)
    /\ pc' = "organize"
    /\ idx' = 0
    /\ organized' = <<>>
    /\ exam_order' = <<>>
    /\ failed_scans' = 0
    /\ UNCHANGED <<images, scan_results, log, subVars, restBatch>>

\* the loop body of organize_by_page filing the result under [page_number][exam_id]
OrganizeResult_swapped ==
    /\ pc = "organize" /\ idx < Len(scan_results)
    /\ LET result == scan_results[idx + 1]
           exam_id == result.exam_id
           page_number == result.page_number
       IN  IF ~result.success
           THEN /\ failed_scans' = failed_scans + 1
                /\ UNCHANGED <<organized, exam_order, log>>
           ELSE IF exam_id = None \/ page_number = None
           THEN UNCHANGED <<failed_scans, organized, exam_order, log>>
           ELSE LET pages == IF page_number[1] \in DOMAIN organized
                             THEN organized[page_number[1]] ELSE <<>>
                IN  /\ organized' =
                           (page_number[1] :> ((exam_id[1] :> result) @@ pages)) @@ organized
                    /\ exam_order' = IF page_number[1] \in DOMAIN organized
                                     THEN exam_order ELSE Append(exam_order, page_number[1])
                    /\ UNCHANGED <<failed_scans, log>>
    /\ idx' = idx + 1
    /\ UNCHANGED <<images, scan_results, pc, subVars, restBatch>>

\* one iteration of the loop of organize_by_page, for result = scan_results[idx]
OrganizeResult ==
    /\ pc = "organize" /\ idx < Len(scan_results)
    /\ LET result == scan_results[idx + 1]
           exam_id == result.exam_id
           page_number == result.page_number
       IN  IF ~result.success
           THEN /\ failed_scans' = failed_scans + 1
                /\ UNCHANGED <<organized, exam_order, log>>
           ELSE IF exam_id = None \/ page_number = None
           THEN /\ log' = Append(log, [level |-> "warning", event |-> "missing"])
                /\ UNCHANGED <<failed_scans, organized, exam_order>>
           ELSE LET pages == IF exam_id[1] \in DOMAIN organized
                             THEN organized[exam_id[1]] ELSE <<>>
                IN  /\ organized' =
                           (exam_id[1] :> ((page_number[1] :> result) @@ pages)) @@ organized
                    /\ exam_order' = IF exam_id[1] \in DOMAIN organized
                                     THEN exam_order ELSE Append(exam_order, exam_id[1])
                    /\ log' = IF page_number[1] \in DOMAIN pages
                              THEN Append(log, [level |-> "warning", event |-> "duplicate",
                                                exam_id |-> exam_id[1],
                                                page_number |-> page_number[1]])
                              ELSE log
                    /\ failed_scans' = failed_scans
    /\ idx' = idx + 1
    /\ UNCHANGED <<images, scan_results, pc, subVars, restBatch>>

RECURSIVE SumPages(_, _)
\* sum(len(pages) for pages in organized.values()), over the exam ids in S
SumPages(org, S) ==
    IF S = {} THEN 0
    ELSE LET e == CHOOSE x \in S : TRUE
         IN  Cardinality(DOMAIN org[e]) + SumPages(org, S \ {e})

\* organize_by_page logs its totals and returns the organized dict
FinishOrganize ==
    /\ pc = "organize" /\ idx = Len(scan_results)
    /\ pc' = "done"
    /\ log' = Append(log, [level |-> "info", event |-> "organized",
                           scanned |-> Len(scan_results),
                           successful |-> SumPages(organized, DOMAIN organized),
                           failed |-> failed_scans])
    /\ UNCHANGED <<images, scan_results, organized, failed_scans, idx, exam_order,
                   subVars, restBatch>>

RECURSIVE sorted(_)
\* sorted(keys), ascending
sorted(S) ==
    IF S = {} THEN <<>>
    ELSE LET m == CHOOSE x \in S : \A y \in S : x <= y
         IN  <<m>> \o sorted(S \ {m})

\* the image object pages[image_index] of the caller's list
PageObject(image_index) == [index |-> image_index, detections |-> images[image_index + 1]]

\* a transform fitted to fewer than four distinct document points
Degenerate(h) == Cardinality(Range(h.src)) < 4

\* extract_full_document(image, scan_result): the outcomes the call can have.
\* The corrected image is kept as the photo it was resampled from and the
\* transform whose inverse was used.  For a degenerate fit cv2.findHomography
\* and np.linalg.inv decide the outcome: no matrix, a singular matrix
\* (LinAlgError) or some matrix.
extract_full_document(image, result) ==
    IF ~result.success \/ result.markers_found < 4 THEN {Return(None)}
    ELSE
        LET homography_matrix == compute_homography_from_scan(result)
            corrected_image == [photo |-> image, inverse_of |-> homography_matrix[1]]
        IN  IF homography_matrix = None THEN {Return(None)}
            ELSE IF Degenerate(homography_matrix[1])
            THEN {Return(None), Raise("LinAlgError"), Return(Some(corrected_image))}
            ELSE {Return(Some(corrected_image))}

\* _save_pages_to_pdf(processed_pages, exam_id, submission_id): None has no
\* save(), and PIL's PDF writer fails on a None among append_images
_save_pages_to_pdf(processed_pages, exam_id, submission_id) ==
    IF processed_pages = <<>> THEN Raise("ValueError")
    ELSE IF \E k \in 1..Len(processed_pages) : processed_pages[k] = None
    THEN Raise("AttributeError")
    ELSE Return([directory |-> "SCANNED_SUBMISSIONS_PATH",
                 name |-> <<"exam", exam_id, "submission", submission_id>>])

\* scan_submission goes on after organize_by_page: results = []
StartExams ==
    /\ pc = "done"
    /\ pc' = "exams"
    /\ results' = <<>>
    /\ exam_pos' = 0
    /\ UNCHANGED <<images, scan_results, organized, failed_scans, idx, exam_order, log,
                   scanned_pages, saved_pdf, sub_exc, restBatch>>

\* the loop over organized_pages.items() takes the next exam: scanned_pages = []
NextExam ==
    /\ pc = "exams" /\ exam_pos < Len(exam_order)
    /\ pc' = "pages"
    /\ scanned_pages' = <<>>
    /\ idx' = 0
    /\ UNCHANGED <<images, scan_results, organized, failed_scans, exam_order, log,
                   exam_pos, saved_pdf, results, sub_exc, restBatch>>

\* the page loop of scan_submission fetching pages[page_num] instead of pages[image_index]
ExtractPage_bypagenum ==
    /\ pc = "pages"
    /\ LET exam_pages == organized[exam_order[exam_pos + 1]]
           keys == sorted(DOMAIN exam_pages)
       IN  /\ idx < Len(keys)
           /\ LET page_num == keys[idx + 1]
                  page_result == exam_pages[page_num]
                  original_image == PageObject(IF page_num < Len(images) THEN page_num ELSE 0)
              IN  \E out \in extract_full_document(original_image, page_result) :
                      IF out.exc = "none"
                      THEN /\ scanned_pages' = Append(scanned_pages, out.value)
                           /\ idx' = idx + 1
                           /\ UNCHANGED <<pc, sub_exc>>
                      ELSE /\ pc' = "raised"
                           /\ sub_exc' = out.exc
                           /\ UNCHANGED <<scanned_pages, idx>>
    /\ UNCHANGED <<images, scan_results, organized, failed_scans, exam_order, log,
                   exam_pos, saved_pdf, results, restBatch>>

\* one iteration of the loop over sorted(exam_pages.keys())
ExtractPage ==
    /\ pc = "pages"
    /\ LET exam_pages == organized[exam_order[exam_pos + 1]]
           keys == sorted(DOMAIN exam_pages)
       IN  /\ idx < Len(keys)
           /\ LET page_num == keys[idx + 1]
                  page_result == exam_pages[page_num]
                  image_index == page_result.image_index
                  original_image == PageObject(image_index)
              IN  \E out \in extract_full_document(original_image, page_result) :
                      IF out.exc = "none"
                      THEN /\ scanned_pages' = Append(scanned_pages, out.value)
                           /\ idx' = idx + 1
                           /\ UNCHANGED <<pc, sub_exc>>
                      ELSE /\ pc' = "raised"
                           /\ sub_exc' = out.exc
                           /\ UNCHANGED <<scanned_pages, idx>>
    /\ UNCHANGED <<images, scan_results, organized, failed_scans, exam_order, log,
                   exam_pos, saved_pdf, results, restBatch>>

\* _save_pages_to_pdf(scanned_pages, exam_id, submission_id) and results.append
SavePdf ==
    /\ pc = "pages"
    /\ idx = Cardinality(DOMAIN organized[exam_order[exam_pos + 1]])
    /\ LET exam_id == exam_order[exam_pos + 1]
           out == _save_pages_to_pdf(scanned_pages, exam_id, "submission_id")
       IN  IF out.exc = "none"
           THEN /\ saved_pdf' = (exam_id :> scanned_pages) @@ saved_pdf
                /\ results' = Append(results, [exam_id     |-> exam_id,
                                               num_pages   |-> Len(scanned_pages),
                                               output_path |-> out.value])
                /\ exam_pos' = exam_pos + 1
                /\ pc' = "exams"
                /\ UNCHANGED sub_exc
           ELSE /\ pc' = "raised"
                /\ sub_exc' = out.exc
                /\ UNCHANGED <<saved_pdf, results, exam_pos>>
    /\ UNCHANGED <<images, scan_results, organized, failed_scans, idx, exam_order, log,
                   scanned_pages, restBatch>>

\* scan_submission returns results
ReturnResults ==
    /\ pc = "exams" /\ exam_pos = Len(exam_order)
    /\ pc' = "returned"
    /\ UNCHANGED <<images, scan_results, organized, failed_scans, idx, exam_order, log,
                   subVars, restBatch>>

BatchNext ==
    \/ AddImage \/ StartScan \/ ScanImage \/ StartOrganize \/ OrganizeResult \/ FinishOrganize
    \/ StartExams \/ NextExam \/ ExtractPage \/ SavePdf \/ ReturnResults

SpecBatch == Init /\ [][BatchNext]_vars

----------------------------------------------------------------------------
(* Claims checked under SpecBatch *)

\* the successful results before position k that resolve to the slot of result k
EarlierSameSlot(k) ==
    {j \in 1..(k - 1) :
        /\ scan_results[j].success
        /\ scan_results[j].exam_id = scan_results[k].exam_id
        /\ scan_results[j].page_number = scan_results[k].page_number}

\* C3: when two or more successful results resolve to the same
\* (exam_id, page_number), the organized mapping holds one entry for the slot
\* and it is the first of them in input order.
C3_FirstSeenKept ==
    pc = "done" =>
        \A k \in 1..Len(scan_results) :
            (scan_results[k].success /\ EarlierSameSlot(k) = {})
                => /\ scan_results[k].exam_id[1] \in DOMAIN organized
                   /\ scan_results[k].page_number[1]
                          \in DOMAIN organized[scan_results[k].exam_id[1]]
                   /\ organized[scan_results[k].exam_id[1]][scan_results[k].page_number[1]]
                          = scan_results[k]

\* C10: scan_multiple_pages returns one result per image in input order,
\* result i carrying image_index = i and being the scan of image i; a failure
\* result for one image does not keep the following images from being scanned.
C10_BatchIsolation ==
    /\ pc = "scan" => Len(scan_results) = idx
    /\ pc \in {"organize", "done"} => Len(scan_results) = Len(images)
    /\ pc # "load" =>
          \A k \in 1..Len(scan_results) :
              /\ scan_results[k].image_index = k - 1
              /\ scan_results[k] = ("image_index" :> (k - 1)) @@ scan_page(images[k])

\* a batch whose first two images fail in two ways and whose third is scanned
C10_Witness ==
    /\ pc = "organize"
    /\ Len(scan_results) = 3
    /\ scan_results[1].success = FALSE /\ scan_results[1].error = "No markers detected"
    /\ scan_results[2].success = FALSE /\ scan_results[2].error = "Multiple exam IDs detected"
    /\ scan_results[3].success /\ scan_results[3].image_index = 2

\* C17: after organize_by_page no result with success = False is in the
\* organized mapping, and every entry organized[e][p] is a successful result
\* of the batch whose own exam_id is e and whose own page_number is p.
C17_FailedNeverAttributed ==
    pc \notin {"load", "scan"} =>
        \A e \in DOMAIN organized : \A p \in DOMAIN organized[e] :
            /\ organized[e][p].success
            /\ organized[e][p].exam_id = Some(e)
            /\ organized[e][p].page_number = Some(p)
            /\ \E k \in 1..Len(scan_results) : scan_results[k] = organized[e][p]

\* a batch with a failed scan that carries an exam id, and an organized page
C17_Witness ==
    /\ pc = "done"
    /\ \E k \in 1..Len(scan_results) :
           ~scan_results[k].success /\ scan_results[k].exam_id = Some(0)
    /\ failed_scans >= 1
    /\ 0 \in DOMAIN organized
    /\ 1 \in DOMAIN organized[0]

Max(S) == CHOOSE m \in S : \A x \in S : x <= m
\* page numbers missing below the largest page number seen for exam e
MissingPages(e) == {p \in 0..Max(DOMAIN organized[e]) : p \notin DOMAIN organized[e]}

\* C18: organizing a batch reports, for every exam id, each page number
\* missing below the largest page number seen for the exam, and the totals
\* scanned, organized and failed.
C18_GapsReported ==
    pc = "done" =>
        /\ \E k \in 1..Len(log) :
               /\ log[k].event = "organized"
               /\ log[k].scanned = Len(scan_results)
               /\ log[k].successful = SumPages(organized, DOMAIN organized)
               /\ log[k].failed = failed_scans
        /\ \A e \in DOMAIN organized : \A p \in MissingPages(e) :
               \E k \in 1..Len(log) :
                   /\ log[k].event = "gap"
                   /\ log[k].exam_id = e
                   /\ log[k].page_number = p

\* the scan results that succeeded with fewer than CORNERS_PER_PAGE markers
\* and are in the organized mapping
DegradedOrganized ==
    {k \in 1..Len(scan_results) :
        /\ scan_results[k].success
        /\ scan_results[k].markers_found < 4
        /\ organized[scan_results[k].exam_id[1]][scan_results[k].page_number[1]]
               = scan_results[k]}

\* C11: if some page scans as success with fewer than 4 markers,
\* scan_submission still completes without raising and returns one entry for
\* every exam id present in the organized results.
C11_DegradedPageTolerated ==
    (pc \in {"returned", "raised"} /\ DegradedOrganized # {}) =>
        /\ pc = "returned"
        /\ sub_exc = "none"
        /\ Len(results) = Cardinality(DOMAIN organized)
        /\ {results[k].exam_id : k \in 1..Len(results)} = DOMAIN organized

\* the page number and exam id a corrected page's photo resolves to
PageOf(corrected) == scan_page(corrected[1].photo.detections).page_number[1]
ExamOf(corrected) == scan_page(corrected[1].photo.detections).exam_id[1]

\* pages is a list of corrected pages of exam e, in strictly ascending
\* page_number order, each resampled from the image at the image_index of the
\* organized result of its page
OrderedPagesOf(pages, e) ==
    LET keys == sorted(DOMAIN organized[e])
    IN  /\ \A k \in 1..Len(pages) : pages[k] # None =>
               /\ pages[k][1].photo = PageObject(organized[e][keys[k]].image_index)
               /\ ExamOf(pages[k]) = e
               /\ PageOf(pages[k]) = keys[k]
        /\ \A j, k \in 1..Len(pages) :
               (j < k /\ pages[j] # None /\ pages[k] # None) => PageOf(pages[j]) < PageOf(pages[k])

\* C19: for every exam id of a submission, scan_submission emits the exam's
\* pages in strictly ascending page_number order, each corrected page computed
\* from the input image at the organized result's image_index, and one output
\* never mixes pages of different exam ids.
C19_GroupedAndOrdered ==
    /\ pc = "pages" => OrderedPagesOf(scanned_pages, exam_order[exam_pos + 1])
    /\ \A e \in DOMAIN saved_pdf :
           /\ OrderedPagesOf(saved_pdf[e], e)
           /\ Len(saved_pdf[e]) = Cardinality(DOMAIN organized[e])
    /\ \A k \in 1..Len(results) :
           /\ results[k].exam_id = exam_order[k]
           /\ results[k].num_pages = Len(saved_pdf[results[k].exam_id])
    /\ pc = "returned" =>
           /\ DOMAIN saved_pdf = DOMAIN organized
           /\ \A e \in DOMAIN saved_pdf : \A k \in 1..Len(saved_pdf[e]) : saved_pdf[e][k] # None

\* pages 1 and 0 of exam 0 photographed in that order come out as pages 0, 1
C19_Witness ==
    /\ pc = "returned"
    /\ 0 \in DOMAIN saved_pdf
    /\ Len(saved_pdf[0]) = 2
    /\ saved_pdf[0][1][1].photo.index = 1
    /\ saved_pdf[0][2][1].photo.index = 0

-----------------------------------------------------------------------------
(* SpecDewarp: a canonical page is photographed under an invertible          *)
(* transform of pixel positions and extract_full_document resamples the      *)
(* photo.  Positions stand for the DOC_WIDTH x DOC_HEIGHT grid; a transform   *)
(* is a bijection of positions, a pixel an (r, g, b) value.                   *)

Positions == 1..NumPixels
PixelPool == {<<0, 0, 1>>, <<1, 0, 0>>}
Pages == [Positions -> PixelPool]
Transforms == {M \in [Positions -> Positions] : \A q \in Positions : \E p \in Positions : M[p] = q}

\* np.linalg.inv(M)
inv(M) == [q \in Positions |-> CHOOSE p \in Positions : M[p] = q]

\* cv2.cvtColor with COLOR_RGB2BGR or COLOR_BGR2RGB: the channels swap ends
cvtColor(img) == [p \in DOMAIN img |-> <<img[p][3], img[p][2], img[p][1]>>]

\* cv2.warpPerspective(src, M, dsize) without WARP_INVERSE_MAP:
\* dst(p) = src(M^-1 p)
warpPerspective(src, M) == [p \in Positions |-> src[inv(M)[p]]]

\* extract_full_document without the inversion: warps with the homography itself
dewarp_forward(image, homography_matrix) ==
    LET image_array == cvtColor(image)
        extracted_document == warpPerspective(image_array, homography_matrix)
    IN  cvtColor(extracted_document)

\* extract_full_document from the inversion on, for a 3-channel image and
\* the document-to-photo homography_matrix
dewarp(image, homography_matrix) ==
    LET homography_inv == inv(homography_matrix)
        image_array == cvtColor(image)
        extracted_document == warpPerspective(image_array, homography_inv)
    IN  cvtColor(extracted_document)

\* a canonical page
ChoosePage ==
    /\ doc_page = None
    /\ doc_page' \in Pages
    /\ UNCHANGED <<transform, photo, extracted, restDewarp>>

\* the camera applies T: the photo shows at T(p) what the page has at p
Photograph ==
    /\ doc_page # None /\ photo = None
    /\ \E T \in Transforms :
           /\ transform' = T
           /\ photo' = [q \in Positions |-> doc_page[inv(T)[q]]]
    /\ UNCHANGED <<doc_page, extracted, restDewarp>>

\* extract_full_document on the photo with the homography T
ExtractFullDocument ==
    /\ photo # None /\ extracted = None
    /\ extracted' = dewarp(photo, transform)
    /\ UNCHANGED <<doc_page, transform, photo, restDewarp>>

DewarpNext == ChoosePage \/ Photograph \/ ExtractFullDocument

SpecDewarp == Init /\ [][DewarpNext]_vars

\* C14: extract_full_document resamples the photograph with the inverse of
\* the document-to-image homography: for a photograph obtained by applying an
\* invertible transform T to a canonical page, dewarping with T gives back the
\* canonical page, each document pixel taking the value of the photo pixel at
\* T of its position.
C14_DewarpInverts ==
    extracted # None =>
        /\ extracted = doc_page
        /\ \A p \in Positions : extracted[p] = photo[transform[p]]

\* a transform that is not its own inverse, and a photo that differs from the page
C14_Witness ==
    /\ extracted # None
    /\ inv(transform) # transform
    /\ photo # doc_page

-----------------------------------------------------------------------------
(* SpecPlace: one call of add_markers_to_page.  An image is kept by its size, *)
(* its mode and the glyph patches written over it; a pixel of the page itself *)
(* is a symbolic value per channel and position.                              *)

PageSides == {100, 110, 200, 500}
\* (width, height): the small sides in every combination, and the layout's size
PageSizes == (PageSides \X PageSides) \cup {<<DOC_WIDTH, DOC_HEIGHT>>}
PageModes == {"L", "RGB", "RGBA"}
PlaceExams == {0, 1, MAX_EXAMS - 1, MAX_EXAMS}
PlacePages == {0, PAGES_PER_EXAM - 1, PAGES_PER_EXAM}

\* Image.new(mode, (width, height)) with any content
NewImage(mode, width, height) ==
    [width |-> width, height |-> height, mode |-> mode, conv |-> "none", patches |-> <<>>]

\* the pixel of a page of the given mode at (px, py)
InputPixel(mode, px, py) ==
    CASE mode = "L"    -> << <<"v", px, py>> >>
      [] mode = "RGB"  -> << <<"r", px, py>>, <<"g", px, py>>, <<"b", px, py>> >>
      [] mode = "RGBA" -> << <<"r", px, py>>, <<"g", px, py>>, <<"b", px, py>>, <<"a", px, py>> >>

\* cv2.cvtColor on one pixel
cvtPixel(code, pixel) ==
    CASE code = "none"     -> pixel
      [] code = "GRAY2BGR" -> <<pixel[1], pixel[1], pixel[1]>>
      [] code = "RGBA2BGR" -> <<pixel[3], pixel[2], pixel[1]>>
      [] code = "BGR2RGB"  -> <<pixel[3], pixel[2], pixel[1]>>
      [] code = "GRAY2RGB" -> <<pixel[1], pixel[1], pixel[1]>>
      [] code = "RGBA2RGB" -> <<pixel[1], pixel[2], pixel[3]>>

\* img_array[py, px]
PixelAt(a, px, py) ==
    LET hits == {k \in 1..Len(a.patches) :
                    /\ a.patches[k].x <= px /\ px < a.patches[k].x + MARKER_SIZE
                    /\ a.patches[k].y <= py /\ py < a.patches[k].y + MARKER_SIZE}
    IN  IF hits = {} THEN cvtPixel(a.conv, InputPixel(a.mode, px, py))
        ELSE LET k == CHOOSE i \in hits : \A j \in hits : j <= i
                 m == a.patches[k]
             IN  cvtPixel("GRAY2BGR", << <<"glyph", m.marker_id, px - m.x, py - m.y>> >>)

\* a slice bound of Python, against an axis of length n
SliceBound(i, n) ==
    IF i < 0 THEN (IF i + n < 0 THEN 0 ELSE i + n)
    ELSE IF i > n THEN n ELSE i

\* length of the slice i : i + MARKER_SIZE of an axis of length n
SliceLen(i, n) ==
    LET start == SliceBound(i, n)
        stop  == SliceBound(i + MARKER_SIZE, n)
    IN  IF stop > start THEN stop - start ELSE 0

\* img_array[y:y+MARKER_SIZE, x:x+MARKER_SIZE] = marker: numpy refuses a
\* MARKER_SIZE x MARKER_SIZE marker for a slice of any other shape
SliceAssign(a, x, y, marker_id) ==
    IF SliceLen(x, a.width) # MARKER_SIZE \/ SliceLen(y, a.height) # MARKER_SIZE
    THEN Raise("ValueError")
    ELSE Return([a EXCEPT !.patches = Append(@, [x |-> SliceBound(x, a.width),
                                                 y |-> SliceBound(y, a.height),
                                                 marker_id |-> marker_id])])

RECURSIVE Composite(_, _, _, _)
\* for marker, (x, y) in zip(markers_bgr, positions), from the k-th pair on
Composite(a, marker_ids, positions, k) ==
    IF k > Len(marker_ids) THEN Return(a)
    ELSE LET out == SliceAssign(a, positions[k][1], positions[k][2], marker_ids[k])
         IN  IF out.exc # "none" THEN out
             ELSE Composite(out.value, marker_ids, positions, k + 1)

\* generate_marker(marker_id)
generate_marker(marker_id) ==
    IF ~(0 <= marker_id /\ marker_id <= MAX_MARKER_ID) THEN Raise("ValueError")
    ELSE Return(marker_id)

\* add_markers_to_page putting the markers into the very corners of the page
MarkerPositions_nomargin(width, height) ==
    << <<0, 0>>,
       <<width - MARKER_SIZE, 0>>,
       <<0, height - MARKER_SIZE>>,
       <<width - MARKER_SIZE, height - MARKER_SIZE>> >>

\* add_markers_to_page with the second and third position exchanged
MarkerPositions_swapped(width, height) ==
    << <<MARGIN, MARGIN>>,
       <<MARGIN, height - MARKER_SIZE - MARGIN>>,
       <<width - MARKER_SIZE - MARGIN, MARGIN>>,
       <<width - MARKER_SIZE - MARGIN, height - MARKER_SIZE - MARGIN>> >>

\* the four positions of add_markers_to_page
MarkerPositions(width, height) ==
    << <<MARGIN, MARGIN>>,
       <<width - MARKER_SIZE - MARGIN, MARGIN>>,
       <<MARGIN, height - MARKER_SIZE - MARGIN>>,
       <<width - MARKER_SIZE - MARGIN, height - MARKER_SIZE - MARGIN>> >>

\* MarkerGenerator.add_markers_to_page(exam_id, page_image, page_number):
\* the outcome, the glyphs rendered on the way, and the caller's page_image
\* object after the call
add_markers_to_page(exam_id, image, page_number) ==
    LET copied == image
        img_array == IF copied.mode = "L" THEN [copied EXCEPT !.conv = "GRAY2BGR"]
                     ELSE IF copied.mode = "RGBA" THEN [copied EXCEPT !.conv = "RGBA2BGR"]
                     ELSE copied
        marker_ids == calculate_markers(exam_id, page_number)
    IN  IF marker_ids.exc # "none"
        THEN [out |-> marker_ids, glyphs |-> <<>>, page_image |-> image]
        ELSE LET markers == [k \in 1..Len(marker_ids.value) |-> generate_marker(marker_ids.value[k])]
             IN  IF \E k \in 1..Len(markers) : markers[k].exc # "none"
                 THEN [out |-> Raise("ValueError"), glyphs |-> <<>>, page_image |-> image]
                 ELSE [out |-> Composite(img_array, marker_ids.value,
                                         MarkerPositions(img_array.width, img_array.height), 1),
                       glyphs |-> marker_ids.value,
                       page_image |-> image]

\* the caller holds a page image
LoadPage ==
    /\ page_image = None
    /\ \E mode \in PageModes, size \in PageSizes :
           page_image' = Some(NewImage(mode, size[1], size[2]))
    /\ UNCHANGED <<place_args, place_result, restPlace>>

\* a call add_markers_to_page(exam_id, page_image, page_number)
AddMarkersToPage ==
    /\ page_image # None /\ place_args = None
    /\ \E exam_id \in PlaceExams, page_number \in PlacePages :
           LET call == add_markers_to_page(exam_id, page_image[1], page_number)
           IN  /\ place_args' = Some([exam_id |-> exam_id, page_number |-> page_number,
                                      page_image |-> page_image[1]])
               /\ place_result' = Some(call.out)
               /\ page_image' = Some(call.page_image)
    /\ UNCHANGED restPlace

PlaceNext == LoadPage \/ AddMarkersToPage

SpecPlace == Init /\ [][PlaceNext]_vars

\* the coordinates along an axis of length n where the corner regions begin
\* and end, with their neighbours and the ends of the axis
Probes(n) ==
    {0, MARGIN - 1, MARGIN, MARGIN + MARKER_SIZE - 1, MARGIN + MARKER_SIZE,
     n - MARGIN - MARKER_SIZE - 1, n - MARGIN - MARKER_SIZE, n - MARGIN - 1, n - MARGIN, n - 1}
        \cap (0..(n - 1))

\* (px, py) lies in one of the four MARKER_SIZE x MARKER_SIZE regions offset
\* MARGIN from the edges of a width x height page
Near(c) == MARGIN <= c /\ c < MARGIN + MARKER_SIZE
Far(c, n) == n - MARGIN - MARKER_SIZE <= c /\ c < n - MARGIN
InCornerRegion(px, py, width, height) ==
    (Near(px) \/ Far(px, width)) /\ (Near(py) \/ Far(py, height))

PlaceReturned == place_result # None /\ place_result[1].exc = "none"

NamedPosition(corner, width, height) ==
    << IF corner \in {"top_left", "bottom_left"} THEN MARGIN ELSE width - MARGIN - MARKER_SIZE,
       IF corner \in {"top_left", "top_right"} THEN MARGIN ELSE height - MARGIN - MARKER_SIZE >>
\* the centre of a marker written at (x, y)
PatchCentre(m) == <<m.x + MARKER_SIZE \div 2, m.y + MARKER_SIZE \div 2>>

\* C27: for every valid (exam_id, page_number) and every index i in 0..3, the
\* marker calculate_markers(exam_id, page_number)[i], which add_markers_to_page
\* composites at the i-th position (top-left, top-right, bottom-left,
\* bottom-right), decodes through decode_marker to the corner name
\* CORNER_NAMES[i], so compute_homography pairs each detected marker with the
\* layout centre of the corner where it was printed.
C27_CornersAgree ==
    PlaceReturned =>
        LET given == place_args[1].page_image
            patches == place_result[1].value.patches
            marker_ids == calculate_markers(place_args[1].exam_id, place_args[1].page_number).value
            detected_markers == _process_markers(marker_ids).detected_markers
            homography_matrix == compute_homography(detected_markers, DetectedCorners(marker_ids))
        IN  /\ Len(patches) = CORNERS_PER_PAGE
            /\ \A i \in 1..CORNERS_PER_PAGE :
                   /\ patches[i].marker_id = marker_ids[i]
                   /\ decode_marker(marker_ids[i])[3] = CORNER_NAMES[i]
                   /\ <<patches[i].x, patches[i].y>>
                          = NamedPosition(decode_marker(marker_ids[i])[3], given.width, given.height)
                   /\ (given.width = DOC_WIDTH /\ given.height = DOC_HEIGHT) =>
                          /\ calculate_original_marker_positions[detected_markers[i].corner].center
                                 = PatchCentre(patches[i])
                          /\ homography_matrix[1].src[i] = PatchCentre(patches[i])

\* a page of the layout's size, of an exam whose unique id is not a fixed one
C27_Witness ==
    /\ PlaceReturned
    /\ place_args[1].page_image.width = DOC_WIDTH
    /\ place_args[1].page_image.height = DOC_HEIGHT
    /\ place_args[1].exam_id = 1
    /\ place_result[1].value.patches[CORNERS_PER_PAGE].marker_id > BLOCK_SIZE

\* the marker regions a and b have no pixel in common
Disjoint(a, b) ==
    \/ a.x + MARKER_SIZE <= b.x \/ b.x + MARKER_SIZE <= a.x
    \/ a.y + MARKER_SIZE <= b.y \/ b.y + MARKER_SIZE <= a.y

\* C28: for every page size (width, height) on which add_markers_to_page
\* returns an image, the four marker regions it writes lie entirely inside
\* the page and are pairwise disjoint, so no marker is clipped or overwritten
\* by another.
C28_RegionsDisjoint ==
    PlaceReturned =>
        LET returned == place_result[1].value
        IN  /\ \A k \in 1..Len(returned.patches) :
                   /\ 0 <= returned.patches[k].x
                   /\ returned.patches[k].x + MARKER_SIZE <= returned.width
                   /\ 0 <= returned.patches[k].y
                   /\ returned.patches[k].y + MARKER_SIZE <= returned.height
            /\ \A j, k \in 1..Len(returned.patches) :
                   j # k => Disjoint(returned.patches[j], returned.patches[k])

-----------------------------------------------------------------------------
(* SpecGenerate: one call of generate_marked_exam, a step per page of the    *)
(* loop.  The pages of a list differ in width, so that a page is told from   *)
(* its neighbours.                                                            *)

GenExams == {0 - 1, 0, 1, MAX_EXAMS - 1, MAX_EXAMS}
GenSides == {112, 500}
MaxPages == PAGES_PER_EXAM + ArgSlack

\* a list of n 3-channel pages, the k-th of them k pixels narrower than side
PageList(n, side) == [k \in 1..n |-> NewImage("RGB", side - k, side)]

\* cv2.cvtColor(page_with_markers, cv2.COLOR_BGR2RGB) and Image.fromarray:
\* the channels of what add_markers_to_page returned swap ends
cvtColor_BGR2RGB(a) ==
    [a EXCEPT !.conv = CASE a.conv = "none"     -> "BGR2RGB"
                         [] a.conv = "GRAY2BGR" -> "GRAY2RGB"
                         [] a.conv = "RGBA2BGR" -> "RGBA2RGB"]

\* a call generate_marked_exam(exam_id, pages): marked_pages = []
CallGenerate ==
    /\ exam_pc = "idle"
    /\ \E exam_id \in GenExams, n \in 0..MaxPages, side \in GenSides :
           exam_call' = Some([exam_id |-> exam_id, pages |-> PageList(n, side)])
    /\ exam_pc' = "loop"
    /\ marked_pages' = <<>>
    /\ rendered' = <<>>
    /\ UNCHANGED <<exam_outcome, restGen>>

\* the loop body of generate_marked_exam with the exception caught and the
\* pages marked so far returned
MarkPage_lenient ==
    /\ exam_pc = "loop" /\ Len(marked_pages) < Len(exam_call[1].pages)
    /\ LET page_number == Len(marked_pages)
           page == exam_call[1].pages[page_number + 1]
           call == add_markers_to_page(exam_call[1].exam_id, page, page_number)
       IN  /\ rendered' = rendered \o [k \in 1..Len(call.glyphs) |->
                                          [page_number |-> page_number, marker_id |-> call.glyphs[k]]]
           /\ IF call.out.exc = "none"
              THEN /\ marked_pages' = Append(marked_pages, cvtColor_BGR2RGB(call.out.value))
                   /\ UNCHANGED <<exam_pc, exam_outcome>>
              ELSE /\ exam_pc' = "returned"
                   /\ exam_outcome' = Some(Return(marked_pages))
                   /\ UNCHANGED marked_pages
    /\ UNCHANGED <<exam_call, restGen>>

\* one iteration of for page_number, page in enumerate(pages)
MarkPage ==
    /\ exam_pc = "loop" /\ Len(marked_pages) < Len(exam_call[1].pages)
    /\ LET page_number == Len(marked_pages)
           page == exam_call[1].pages[page_number + 1]
           call == add_markers_to_page(exam_call[1].exam_id, page, page_number)
       IN  /\ rendered' = rendered \o [k \in 1..Len(call.glyphs) |->
                                          [page_number |-> page_number, marker_id |-> call.glyphs[k]]]
           /\ IF call.out.exc = "none"
              THEN /\ marked_pages' = Append(marked_pages, cvtColor_BGR2RGB(call.out.value))
                   /\ UNCHANGED <<exam_pc, exam_outcome>>
              ELSE /\ exam_pc' = "raised"
                   /\ exam_outcome' = Some(call.out)
                   /\ UNCHANGED marked_pages
    /\ UNCHANGED <<exam_call, restGen>>

\* return marked_pages
ReturnMarked ==
    /\ exam_pc = "loop" /\ Len(marked_pages) = Len(exam_call[1].pages)
    /\ exam_pc' = "returned"
    /\ exam_outcome' = Some(Return(marked_pages))
    /\ UNCHANGED <<exam_call, marked_pages, rendered, restGen>>

GenerateNext == CallGenerate \/ MarkPage \/ ReturnMarked

SpecGenerate == Init /\ [][GenerateNext]_vars

\* indices of the pages of the call whose address is invalid
InvalidPages ==
    {i \in 0..(Len(exam_call[1].pages) - 1) : ~ValidAddress(exam_call[1].exam_id, i)}
FirstInvalid == CHOOSE i \in InvalidPages : \A j \in InvalidPages : i <= j
\* the page is large enough for the four markers
Fits(image) ==
    /\ image.width >= MARGIN + MARKER_SIZE
    /\ image.height >= MARGIN + MARKER_SIZE
GenEnded == exam_pc \in {"raised", "returned"}

\* C16: generate_marked_exam marks page i of the input list with
\* page_number i; if exam_id is out of range or the list has more than
\* PAGES_PER_EXAM pages, the call raises on the first page whose address is
\* invalid, no glyph is rendered or composited for that page, and no list of
\* marked pages, not even the marked prefix, is returned; when all addresses
\* are valid the output has the same length as the input.
C16_FailFast ==
    exam_call # None =>
        LET exam_id == exam_call[1].exam_id
            pages == exam_call[1].pages
        IN  /\ \A k \in 1..Len(marked_pages) :
                   /\ marked_pages[k].width = pages[k].width
                   /\ [j \in 1..Len(marked_pages[k].patches) |-> marked_pages[k].patches[j].marker_id]
                          = calculate_markers(exam_id, k - 1).value
            /\ \A k \in 1..Len(rendered) : ValidAddress(exam_id, rendered[k].page_number)
            /\ (GenEnded /\ InvalidPages # {}) =>
                   /\ exam_pc = "raised"
                   /\ exam_outcome[1].exc = "ValueError"
                   /\ exam_outcome[1].value = None
                   /\ Len(marked_pages) <= FirstInvalid
                   /\ (\A k \in 1..FirstInvalid : Fits(pages[k])) => Len(marked_pages) = FirstInvalid
            /\ (GenEnded /\ InvalidPages = {}) =>
                   /\ exam_pc = "returned" => Len(exam_outcome[1].value) = Len(pages)
                   /\ (\A k \in 1..Len(pages) : Fits(pages[k])) => exam_pc = "returned"

\* a list of PAGES_PER_EXAM + 1 pages of a valid exam: the call raised on
\* the last page after marking all the pages before it
C16_Witness ==
    /\ exam_pc = "raised"
    /\ ValidAddress(exam_call[1].exam_id, 0)
    /\ Len(exam_call[1].pages) = PAGES_PER_EXAM + 1
    /\ Len(marked_pages) = PAGES_PER_EXAM
    /\ Len(rendered) = PAGES_PER_EXAM * CORNERS_PER_PAGE

-----------------------------------------------------------------------------
(* SpecAgent: the threads of a pool run _classify_question_type, each        *)
(* calling Agent.wait_if_needed before its request and                       *)
(* Agent.handle_rate_limit after a rate-limit error.  A lock object is named *)
(* after the thread that created it.                                         *)

agentLocals == <<wake, slept, called_at, retries>>

\* Agent.wait_if_needed() is called
WaitIfNeeded(t) ==
    /\ a_pc[t] = "start"
    /\ a_op' = [a_op EXCEPT ![t] = [name |-> "wait_if_needed", retry_delay |-> 0]]
    /\ a_pc' = [a_pc EXCEPT ![t] = "hasattr"]
    /\ called_at' = [called_at EXCEPT ![t] = now]
    /\ slept' = [slept EXCEPT ![t] = 0]
    /\ UNCHANGED <<lock_attr, lock_holder, my_lock, last_request_time, now, ticks, wake,
                   stamps, retries, restAgent>>

\* if not hasattr(cls, "_lock_")
HasAttr(t) ==
    /\ a_pc[t] = "hasattr"
    /\ a_pc' = [a_pc EXCEPT ![t] = IF lock_attr # "none" THEN "with" ELSE "new_lock"]
    /\ UNCHANGED <<a_op, lock_attr, lock_holder, my_lock, last_request_time, now, ticks,
                   stamps, agentLocals, restAgent>>

\* cls._lock_ = threading.Lock()
NewLock(t) ==
    /\ a_pc[t] = "new_lock"
    /\ lock_attr' = t
    /\ a_pc' = [a_pc EXCEPT ![t] = "init_time"]
    /\ UNCHANGED <<a_op, lock_holder, my_lock, last_request_time, now, ticks,
                   stamps, agentLocals, restAgent>>

\* cls.last_request_time = 0
InitTime(t) ==
    /\ a_pc[t] = "init_time"
    /\ last_request_time' = 0
    /\ a_pc' = [a_pc EXCEPT ![t] = "with"]
    /\ UNCHANGED <<a_op, lock_attr, lock_holder, my_lock, now, ticks,
                   stamps, agentLocals, restAgent>>

\* with cls._lock_: the attribute is read
With(t) ==
    /\ a_pc[t] = "with"
    /\ my_lock' = [my_lock EXCEPT ![t] = lock_attr]
    /\ a_pc' = [a_pc EXCEPT ![t] = "acquire"]
    /\ UNCHANGED <<a_op, lock_attr, lock_holder, last_request_time, now, ticks,
                   stamps, agentLocals, restAgent>>

\* with cls._lock_: the lock object is acquired
Acquire(t) ==
    /\ a_pc[t] = "acquire"
    /\ lock_holder[my_lock[t]] = "free"
    /\ lock_holder' = [lock_holder EXCEPT ![my_lock[t]] = t]
    /\ a_pc' = [a_pc EXCEPT ![t] = "read"]
    /\ UNCHANGED <<a_op, lock_attr, my_lock, last_request_time, now, ticks,
                   stamps, agentLocals, restAgent>>

\* wait_time of wait_if_needed at current_time (0: no sleep)
wait_if_needed_wait(current_time) ==
    LET time_since_last == current_time - last_request_time
    IN  IF time_since_last < MIN_INTERVAL THEN MIN_INTERVAL - time_since_last ELSE 0

\* wait_time of handle_rate_limit(retry_delay) at current_time (0: no sleep)
handle_rate_limit_wait(current_time, retry_delay) ==
    LET next_allowed_time == last_request_time + retry_delay + Second
    IN  IF current_time < next_allowed_time THEN next_allowed_time - current_time ELSE 0

\* current_time = time.time() and the test against cls.last_request_time;
\* without the attribute the read raises AttributeError and the with
\* statement lets go of the lock
ReadTime(t) ==
    /\ a_pc[t] = "read"
    /\ IF last_request_time = Unset
       THEN /\ a_pc' = [a_pc EXCEPT ![t] = "failed"]
            /\ lock_holder' = [lock_holder EXCEPT ![my_lock[t]] = "free"]
            /\ UNCHANGED <<wake, slept>>
       ELSE LET wait_time == IF a_op[t].name = "wait_if_needed"
                             THEN wait_if_needed_wait(now)
                             ELSE handle_rate_limit_wait(now, a_op[t].retry_delay)
            IN  /\ slept' = [slept EXCEPT ![t] = wait_time]
                /\ wake' = [wake EXCEPT ![t] = now + wait_time]
                /\ a_pc' = [a_pc EXCEPT ![t] = IF wait_time > 0 THEN "sleep" ELSE "write"]
                /\ UNCHANGED lock_holder
    /\ UNCHANGED <<a_op, lock_attr, my_lock, last_request_time, now, ticks,
                   called_at, stamps, retries, restAgent>>

\* time.sleep(wait_time) is over
Sleep(t) ==
    /\ a_pc[t] = "sleep"
    /\ now >= wake[t]
    /\ a_pc' = [a_pc EXCEPT ![t] = "write"]
    /\ UNCHANGED <<a_op, lock_attr, lock_holder, my_lock, last_request_time, now, ticks,
                   stamps, agentLocals, restAgent>>

\* cls.last_request_time = time.time()
Write(t) ==
    /\ a_pc[t] = "write"
    /\ last_request_time' = now
    /\ stamps' = Append(stamps, [thread |-> t, name |-> a_op[t].name, time |-> now,
                                 slept |-> slept[t], called_at |-> called_at[t]])
    /\ a_pc' = [a_pc EXCEPT ![t] = "release"]
    /\ UNCHANGED <<a_op, lock_attr, lock_holder, my_lock, now, ticks, agentLocals, restAgent>>

\* the with statement ends and the call returns: to the request after
\* wait_if_needed, to the top of the retry loop after handle_rate_limit
Release(t) ==
    /\ a_pc[t] = "release"
    /\ lock_holder' = [lock_holder EXCEPT ![my_lock[t]] = "free"]
    /\ a_pc' = [a_pc EXCEPT ![t] = IF a_op[t].name = "wait_if_needed" THEN "request" ELSE "start"]
    /\ UNCHANGED <<a_op, lock_attr, my_lock, last_request_time, now, ticks,
                   stamps, agentLocals, restAgent>>

\* generate_content answers
RequestOk(t) ==
    /\ a_pc[t] = "request"
    /\ a_pc' = [a_pc EXCEPT ![t] = "finished"]
    /\ UNCHANGED <<a_op, lock_attr, lock_holder, my_lock, last_request_time, now, ticks,
                   stamps, agentLocals, restAgent>>

\* generate_content raises ResourceExhausted: Agent.handle_rate_limit(retry_delay)
HandleRateLimit(t) ==
    /\ a_pc[t] = "request"
    /\ retries[t] < MaxRetries
    /\ \E retry_delay \in RetryDelays :
           a_op' = [a_op EXCEPT ![t] = [name |-> "handle_rate_limit", retry_delay |-> retry_delay]]
    /\ retries' = [retries EXCEPT ![t] = @ + 1]
    /\ called_at' = [called_at EXCEPT ![t] = now]
    /\ slept' = [slept EXCEPT ![t] = 0]
    /\ a_pc' = [a_pc EXCEPT ![t] = "hasattr"]
    /\ UNCHANGED <<lock_attr, lock_holder, my_lock, last_request_time, now, ticks, wake,
                   stamps, restAgent>>

\* the clock advances, by a step or to the end of a sleep
Tick ==
    /\ ticks < MaxTicks
    /\ \E d \in {ClockStep} \cup {wake[t] - now : t \in {u \in Threads : a_pc[u] = "sleep" /\ wake[u] > now}} :
           now' = now + d
    /\ ticks' = ticks + 1
    /\ UNCHANGED <<a_pc, a_op, lock_attr, lock_holder, my_lock, last_request_time,
                   stamps, agentLocals, restAgent>>

AgentNext ==
    \/ \E t \in Threads :
           \/ WaitIfNeeded(t) \/ HasAttr(t) \/ NewLock(t) \/ InitTime(t) \/ With(t)
           \/ Acquire(t) \/ ReadTime(t) \/ Sleep(t) \/ Write(t) \/ Release(t)
           \/ RequestOk(t) \/ HandleRateLimit(t)
    \/ Tick

SpecAgent == Init /\ [][AgentNext]_vars

\* the calls of the given method that wrote last_request_time, in order
StampsOf(name) == SelectSeq(stamps, LAMBDA e : e.name = name)
\* threads between reading and writing last_request_time
InCriticalSection == {t \in Threads : a_pc[t] \in {"sleep", "write"}}

\* C21: under any interleaving of threads calling Agent.wait_if_needed,
\* including several threads making their very first call at the same time,
\* the times at which two consecutive calls return are at least MIN_INTERVAL
\* apart, and at most one thread at a time is between reading and writing
\* last_request_time.
C21_RateLimitThreadSafe ==
    /\ \A k \in 1..(Len(StampsOf("wait_if_needed")) - 1) :
           StampsOf("wait_if_needed")[k + 1].time - StampsOf("wait_if_needed")[k].time >= MIN_INTERVAL
    /\ Cardinality(InCriticalSection) <= 1

\* C24: when several threads call Agent.handle_rate_limit(retry_delay) for
\* the same rate-limit event, only the first thread to take the lock sleeps
\* the full retry_delay + 1 seconds; each thread that arrives while it waits
\* returns, once it gets the lock, without sleeping a further full
\* retry_delay + 1.
C24_CoordinatedBackoff ==
    \A t \in Threads : \A k \in 1..Len(stamps) :
        (/\ a_op[t].name = "handle_rate_limit"
         /\ a_pc[t] \in {"sleep", "write", "release"}
         /\ stamps[k].name = "handle_rate_limit"
         /\ stamps[k].thread # t
         /\ stamps[k].slept > 0
         /\ stamps[k].time - stamps[k].slept <= called_at[t]
         /\ called_at[t] <= stamps[k].time)
            => slept[t] < a_op[t].retry_delay + Second

-----------------------------------------------------------------------------
(* SpecProcess: process_exams submits three tasks per exam to a             *)
(* ThreadPoolExecutor; the pool's threads take the tasks in the order of     *)
(* submission.  A future is kept by its state: unsubmitted, queued, running  *)
(* (with the step the task is at), or how it ended.                          *)

TaskNames == <<"f1", "f2", "f3">>
Ended == {"ok", "failed", "ok_dir", "ok_nodir", "content", "none"}
Running == {"running", "blocked", "classify", "update"}
\* threads of the pool that are inside a task
Busy == Cardinality({task \in ExamIds \X {"f1", "f2", "f3"} : fut[task[1]][task[2]] \in Running})

\* __enter__: ThreadPoolExecutor(max_workers=self.max_workers), then the call
\* process_exams(exams_data)
Enter ==
    /\ pe_pc = "new"
    /\ max_workers' \in 1..MaxWorkers
    /\ exams_data' \in 0..NumExams
    /\ pe_pc' = "submit"
    /\ UNCHANGED <<pe_next, work_queue, fut, updated, completed_tasks, pe_results, restProcess>>

\* one self.executor.submit(...) of the loop over exams_data
Submit ==
    /\ pe_pc = "submit" /\ pe_next < exams_data * Len(TaskNames)
    /\ LET exam_id == (pe_next \div Len(TaskNames)) + 1
           name == TaskNames[(pe_next % Len(TaskNames)) + 1]
       IN  /\ fut' = [fut EXCEPT ![exam_id][name] = "queued"]
           /\ work_queue' = Append(work_queue, <<exam_id, name>>)
    /\ pe_next' = pe_next + 1
    /\ UNCHANGED <<pe_pc, exams_data, max_workers, updated, completed_tasks, pe_results, restProcess>>

\* a thread of the pool taking the task submitted last
StartTask_lifo ==
    /\ work_queue # <<>> /\ Busy < max_workers
    /\ LET task == work_queue[Len(work_queue)]
       IN  fut' = [fut EXCEPT ![task[1]][task[2]] = IF task[2] = "f3" THEN "blocked" ELSE "running"]
    /\ work_queue' = SubSeq(work_queue, 1, Len(work_queue) - 1)
    /\ UNCHANGED <<pe_pc, exams_data, pe_next, max_workers, updated, completed_tasks, pe_results, restProcess>>

\* a free thread of the pool takes the oldest task of the queue;
\* submit_classification starts with f2_future.result()
StartTask ==
    /\ work_queue # <<>> /\ Busy < max_workers
    /\ LET task == Head(work_queue)
       IN  fut' = [fut EXCEPT ![task[1]][task[2]] = IF task[2] = "f3" THEN "blocked" ELSE "running"]
    /\ work_queue' = Tail(work_queue)
    /\ UNCHANGED <<pe_pc, exams_data, pe_next, max_workers, updated, completed_tasks, pe_results, restProcess>>

\* mark_exam returns or raises
FinishF1(e) ==
    /\ fut[e].f1 = "running"
    /\ \E outcome \in {"ok", "failed"} : fut' = [fut EXCEPT ![e].f1 = outcome]
    /\ UNCHANGED <<pe_pc, exams_data, pe_next, max_workers, work_queue, updated, completed_tasks,
                   pe_results, restProcess>>

\* process_correction returns with or without a sections directory, or raises
FinishF2(e) ==
    /\ fut[e].f2 = "running"
    /\ \E outcome \in {"ok_dir", "ok_nodir", "failed"} : fut' = [fut EXCEPT ![e].f2 = outcome]
    /\ UNCHANGED <<pe_pc, exams_data, pe_next, max_workers, work_queue, updated, completed_tasks,
                   pe_results, restProcess>>

\* submit_classification going on without f2's result
F2Result_nowait(e) ==
    /\ fut[e].f3 = "blocked"
    /\ fut' = [fut EXCEPT ![e].f3 = IF fut[e].f2 \in {"ok_nodir", "failed"} THEN "none"
                                    ELSE "classify"]
    /\ UNCHANGED <<pe_pc, exams_data, pe_next, max_workers, work_queue, updated, completed_tasks,
                   pe_results, restProcess>>

\* f2_future.result() returns or raises once f2 has ended; with a sections
\* directory extract_questions is called, else the task returns None
F2Result(e) ==
    /\ fut[e].f3 = "blocked"
    /\ fut[e].f2 \in Ended
    /\ fut' = [fut EXCEPT ![e].f3 = IF fut[e].f2 = "ok_dir" THEN "classify" ELSE "none"]
    /\ UNCHANGED <<pe_pc, exams_data, pe_next, max_workers, work_queue, updated, completed_tasks,
                   pe_results, restProcess>>

\* extract_questions returns the content or raises
Classify(e) ==
    /\ fut[e].f3 = "classify"
    /\ \E next \in {"update", "none"} : fut' = [fut EXCEPT ![e].f3 = next]
    /\ UNCHANGED <<pe_pc, exams_data, pe_next, max_workers, work_queue, updated, completed_tasks,
                   pe_results, restProcess>>

\* repo.update_exam(eid, content, ...) returns or raises
UpdateExam(e) ==
    /\ fut[e].f3 = "update"
    /\ updated' = updated \cup {e}
    /\ \E outcome \in {"content", "none"} : fut' = [fut EXCEPT ![e].f3 = outcome]
    /\ UNCHANGED <<pe_pc, exams_data, pe_next, max_workers, work_queue, completed_tasks,
                   pe_results, restProcess>>

\* the loop over as_completed(all_task_futures) ends when every future has
AsCompleted ==
    /\ pe_pc = "submit" /\ pe_next = exams_data * Len(TaskNames)
    /\ \A e \in 1..exams_data : fut[e].f1 \in Ended /\ fut[e].f2 \in Ended /\ fut[e].f3 \in Ended
    /\ completed_tasks' = completed_tasks + exams_data * Len(TaskNames)
    /\ pe_pc' = "collect"
    /\ UNCHANGED <<exams_data, pe_next, max_workers, work_queue, fut, updated, pe_results, restProcess>>

\* results[exam_id] = self.all_exams[exam_id] for every exam, updated when
\* none of its three futures raised; return results
Collect ==
    /\ pe_pc = "collect"
    /\ pe_results' = Some([e \in 1..exams_data |->
                              IF fut[e].f1 = "failed" \/ fut[e].f2 = "failed"
                              THEN [marked_exam |-> "None", correction_sections |-> "None"]
                              ELSE [marked_exam |-> fut[e].f1, correction_sections |-> fut[e].f2,
                                    content_classification |-> fut[e].f3]])
    /\ pe_pc' = "returned"
    /\ UNCHANGED <<exams_data, pe_next, max_workers, work_queue, fut, updated, completed_tasks, restProcess>>

ProcessNext ==
    \/ Enter \/ Submit \/ StartTask \/ AsCompleted \/ Collect
    \/ \E e \in ExamIds : FinishF1(e) \/ FinishF2(e) \/ F2Result(e) \/ Classify(e) \/ UpdateExam(e)

SpecProcess == Init /\ [][ProcessNext]_vars

\* the threads of the pool and the caller's thread keep running
SpecProcessLive == SpecProcess /\ WF_vars(ProcessNext)

\* C25: in process_exams, for every exam the classification step
\* (extract_questions followed by repo.update_exam) never begins before that
\* exam's correction-layout task f2 has finished, it is skipped (result None,
\* no update_exam) when f2 failed or produced no sections directory, and the
\* marking task f1 of an exam is independent of both.
C25_ClassificationFollowsLayout ==
    \A e \in ExamIds :
        /\ (fut[e].f3 \in {"classify", "update", "content"} \/ e \in updated) => fut[e].f2 = "ok_dir"
        /\ (fut[e].f2 \in {"failed", "ok_nodir"} /\ fut[e].f3 \in Ended) =>
               (fut[e].f3 = "none" /\ e \notin updated)
        /\ fut[e].f1 = "running" => ENABLED FinishF1(e)
        /\ fut[e].f2 = "running" => ENABLED FinishF2(e)
        /\ (fut[e].f3 = "blocked" /\ fut[e].f2 \in Ended) => ENABLED F2Result(e)

\* one exam classified and stored after its layout while its marking task is
\* still running; another skipped after a failed layout
C25_Witness ==
    \E e, d \in ExamIds :
        /\ fut[e].f3 = "content" /\ e \in updated /\ fut[e].f1 = "running"
        /\ fut[d].f2 = "failed" /\ fut[d].f3 = "none"

\* C30: process_exams terminates for any number of exams and any
\* max_workers >= 1: every classification task eventually finishes although it
\* blocks a pool worker on f2.result(), all 3 tasks of every exam complete,
\* and the returned dict has one entry per submitted exam id.
C30_ProcessTerminates ==
    <>(/\ pe_pc = "returned"
       /\ \A e \in 1..exams_data : fut[e].f1 \in Ended /\ fut[e].f2 \in Ended /\ fut[e].f3 \in Ended
       /\ DOMAIN pe_results[1] = 1..exams_data)

\* a pool of one thread got through all the tasks
C30_Witness ==
    /\ pe_pc = "returned"
    /\ max_workers = 1
    /\ exams_data = NumExams
    /\ DOMAIN pe_results[1] = 1..exams_data
    /\ completed_tasks = NumExams * Len(TaskNames)

-----------------------------------------------------------------------------
(* SpecMark: batch_mark_3eme_exams marks the PDFs it found one after the    *)
(* other, a step per PDF.  A PDF is kept by the number of its pages.         *)

\* def batch_mark_3eme_exams(start_exam_id: int = 200)
DEFAULT_START_EXAM_ID == 200
StartIds == {0, MAX_EXAMS - 2, DEFAULT_START_EXAM_ID}
PdfPages == {1, 2, PAGES_PER_EXAM + 1}
PdfLists == UNION {[1..n -> PdfPages] : n \in 1..MaxPdfs}

\* convert_pdf_to_images(pdf_path): one RGB image per page, an A4 page
\* rendered at 200 dpi
convert_pdf_to_images(pdf) == [k \in 1..pdf |-> NewImage("RGB", DOC_WIDTH, DOC_HEIGHT)]

\* MarkerGenerator.generate_marked_exam(exam_id, pages) from page_number on,
\* marked_pages being the pages marked so far
RECURSIVE generate_marked_exam_from(_, _, _, _)
generate_marked_exam_from(exam_id, pages, page_number, marked_so_far) ==
    IF page_number = Len(pages) THEN Return(marked_so_far)
    ELSE LET call == add_markers_to_page(exam_id, pages[page_number + 1], page_number)
         IN  IF call.out.exc # "none" THEN call.out
             ELSE generate_marked_exam_from(exam_id, pages, page_number + 1,
                      Append(marked_so_far, cvtColor_BGR2RGB(call.out.value)))

generate_marked_exam(exam_id, pages) == generate_marked_exam_from(exam_id, pages, 0, <<>>)

\* mark_pdf(pdf_path, exam_id) on a PDF that exists: the path of the marked
\* PDF, kept as the exam id and the number of pages written
mark_pdf(pdf, exam_id) ==
    LET pages == convert_pdf_to_images(pdf)
        generated == generate_marked_exam(exam_id, pages)
    IN  IF generated.exc # "none" THEN generated
        ELSE IF Len(generated.value) = 0 THEN Raise("IndexError")
        ELSE Return([exam_id |-> exam_id, pages |-> Len(generated.value)])

\* a call batch_mark_3eme_exams(start_exam_id) that found PDFs to mark:
\* results = [], current_exam_id = start_exam_id
CallBatchMark ==
    /\ bm_pc = "idle"
    /\ \E start_exam_id \in StartIds, pdfs_to_mark \in PdfLists :
           bm_call' = Some([start_exam_id |-> start_exam_id, pdfs_to_mark |-> pdfs_to_mark])
    /\ bm_pc' = "loop"
    /\ bm_results' = <<>>
    /\ UNCHANGED restMark

\* one iteration of for i, item in enumerate(pdfs_to_mark)
MarkNextPdf ==
    /\ bm_pc = "loop" /\ Len(bm_results) < Len(bm_call[1].pdfs_to_mark)
    /\ LET i == Len(bm_results)
           exam_id == bm_call[1].start_exam_id + i
           output_path == mark_pdf(bm_call[1].pdfs_to_mark[i + 1], exam_id)
       IN  bm_results' = Append(bm_results,
                                IF output_path.exc = "none"
                                THEN [input |-> i, exam_id |-> exam_id,
                                      output |-> Some(output_path.value), status |-> "SUCCESS"]
                                ELSE [input |-> i, exam_id |-> exam_id,
                                      output |-> None, status |-> "FAILED"])
    /\ UNCHANGED <<bm_call, bm_pc, restMark>>

\* the loop is over: the summary is printed
PrintSummary ==
    /\ bm_pc = "loop" /\ Len(bm_results) = Len(bm_call[1].pdfs_to_mark)
    /\ bm_pc' = "done"
    /\ UNCHANGED <<bm_call, bm_results, restMark>>

MarkNext == CallBatchMark \/ MarkNextPdf \/ PrintSummary

SpecMark == Init /\ [][MarkNext]_vars

\* every PDF gets the id start_exam_id + i, a failure is recorded as FAILED
\* and the loop goes on to the PDFs that remain
SequentialAndTolerant ==
    bm_call # None =>
        /\ \A k \in 1..Len(bm_results) :
               /\ bm_results[k].exam_id = bm_call[1].start_exam_id + (k - 1)
               /\ bm_results[k].status = "FAILED"
                      <=> mark_pdf(bm_call[1].pdfs_to_mark[k], bm_results[k].exam_id).exc # "none"
               /\ bm_results[k].status = "SUCCESS" =>
                      bm_results[k].output[1].exam_id = bm_results[k].exam_id
        /\ bm_pc = "done" => Len(bm_results) = Len(bm_call[1].pdfs_to_mark)

\* C29: every exam id that batch_mark_3eme_exams hands to mark_pdf, namely
\* start_exam_id + i for the i-th PDF with the default start_exam_id, lies in
\* [0, MAX_EXAMS) and is therefore accepted by calculate_markers; a failure on
\* one PDF is recorded as FAILED and the remaining PDFs are still marked with
\* their own sequential ids.
C29_DefaultIdsAccepted ==
    /\ SequentialAndTolerant
    /\ (bm_call # None /\ bm_call[1].start_exam_id = DEFAULT_START_EXAM_ID) =>
           \A k \in 1..Len(bm_results) :
               /\ 0 <= bm_results[k].exam_id /\ bm_results[k].exam_id < MAX_EXAMS
               /\ calculate_markers(bm_results[k].exam_id, 0).exc = "none"

====
